---- MODULE Spec2Model ----
(***************************************************************************)
(* A model of the apple-doc-mcp server: the session state (ServerState and *)
(* its three state managers), the keyed mutex, the local symbol index and  *)
(* the search_symbols / choose_technology handlers.                        *)
(*                                                                         *)
(* An optional value (T | undefined) is a set with at most one element:    *)
(* {} is undefined, {v} is the value v.                                    *)
(***************************************************************************)
EXTENDS Integers, Sequences, FiniteSets, TLC

VARIABLES
    state,      \* the ServerState of the session (server/state.ts)
    lastOp,     \* history: the last ServerState operation, its argument and the state before it
    indexes,    \* the LocalSymbolIndex objects constructed so far; a reference is a position
    mutexes,    \* KeyedMutex.mutexes: key -> AsyncMutex [locked, queue]
    holding,    \* history: caller -> the keys whose release function it was granted and has not called
    handedTo,   \* history: key -> the waiter its last release resolved, if any
    localIndex, \* one LocalSymbolIndex, built from the cache directory step by step
    dir,        \* the cache directory: "missing", "listable" or "unlistable" (access passes, readdir throws)
    build,      \* the buildIndexFromCache calls on localIndex: call -> its position and locals
    indexOp,    \* history: the last step taken on localIndex and the index before it
    inv,        \* the tool invocations of the session: invocation -> its position and locals
    epoch,      \* history: how many times the active technology identifier changed
    searched,   \* history: the last LocalSymbolIndex.search call, its arguments and its outcome
    cache,      \* a MemoryCache: its Map in insertion order, cacheTimeout and maxSize
    now,        \* Date.now()
    cacheOp,    \* history: the last MemoryCache operation, its key, the cache and the least recently used key before it, what it returned
    lastSet,    \* history: key -> the time and the data of its last set, whether it was evicted or cleared since, and how many gets returned it while it was held
    recency,    \* history: the keys set or read with success and not removed since, the least recently used first
    http,       \* the configuration of the HttpClient: config.http.maxRetryAttempts
    req,        \* the makeRequest calls: request -> its position, its locals and, as history, what it met
    docsDir,    \* the cache directory of a FileCache: file name -> the text of the file, if it exists
    fileOp,     \* history: the last FileCache load, what was loaded and what the load returned or threw
    savedUnder, \* history: framework name, symbol path or technology list -> the data last saved under it
    lastSaver,  \* history: file name -> who saved into it last, unless it was written from outside since
    clientCall, \* the calls of AppleDevDocsClient methods: call -> its position, its locals and, as history, whether its save failed
    resolving,  \* one resolveSymbol call: its position, its arguments, its locals and, as history, the getSymbol calls made
    ranking,    \* one collectMatches call: its arguments and what it returned
    loader      \* the loadActiveFrameworkData and expandSymbolReferences calls: call -> its position, its locals and, as history, what it met

stateVars == <<state, lastOp, indexes>>

mutexVars == <<mutexes, holding, handedTo>>

indexVars == <<localIndex, dir, build, indexOp>>

handlerVars == <<inv, epoch>>

searchVars == <<searched>>

cacheVars == <<cache, now, cacheOp, lastSet, recency>>

httpVars == <<http, req>>

fileVars == <<docsDir, fileOp, savedUnder, lastSaver>>

clientVars == <<clientCall>>

resolveVars == <<resolving>>

scoreVars == <<ranking>>

loaderVars == <<loader>>

vars == <<stateVars, mutexVars, indexVars, handlerVars, searchVars, cacheVars, httpVars, fileVars, clientVars, resolveVars, scoreVars, loaderVars>>

(***************************************************************************)
(* Technologies.  Two objects may carry the same identifier (the list is   *)
(* refreshed wholesale).                                                   *)
(* A string that the code takes apart is a sequence of pieces: the         *)
(* identifier doc://com.apple.documentation/documentation/swiftui is       *)
(* <<"doc://com.apple.documentation/", "documentation/", "swiftui">>.      *)
(***************************************************************************)
SwiftUI == [identifier |-> <<"doc://com.apple.documentation/", "documentation/", "swiftui">>,
            title |-> <<"Swift", "UI">>, kind |-> "symbol", role |-> "collection"]

SwiftUIRefetched == [identifier |-> <<"doc://com.apple.documentation/", "documentation/", "swiftui">>,
                     title |-> <<"Swift", "UI", " (refetched)">>, kind |-> "symbol", role |-> "collection"]

UIKit == [identifier |-> <<"doc://com.apple.documentation/", "documentation/", "uikit">>,
          title |-> <<"UI", "Kit">>, kind |-> "symbol", role |-> "collection"]

Tutorials == [identifier |-> <<"doc://com.apple.documentation/", "tutorials/", "swiftui">>,
              title |-> <<"Swift", "UI", " ", "Tutorials">>, kind |-> "project", role |-> "overview"]

Technologies == {SwiftUI, SwiftUIRefetched, UIKit}

FrameworkDatas == {"swiftuiFramework", "uikitFramework"}

FrameworkIndexes == {"frameworkIndex"}

ExpandableIdentifiers == {"doc://test", "doc://other"}

Discoveries == {"discovery"}

\* technology?.identifier
Identifier(technology) == {t.identifier : t \in technology}

(***************************************************************************)
(* TechnologyState                                                         *)
(***************************************************************************)
TechnologyState_setActiveTechnology(s, technology) ==
    [s EXCEPT !.activeTechnology = technology]

hasChangedAlways(s, previousIdentifier) == TRUE

hasChanged(s, previousIdentifier) ==
    previousIdentifier # Identifier(s.activeTechnology)

(***************************************************************************)
(* FrameworkState                                                          *)
(***************************************************************************)
setActiveFrameworkData(s, data) == [s EXCEPT !.activeFrameworkData = data]

clearActiveFrameworkData(s) == [s EXCEPT !.activeFrameworkData = {}]

setFrameworkIndex(s, index) == [s EXCEPT !.frameworkIndex = index]

clearFrameworkIndex(s) ==
    [s EXCEPT !.frameworkIndex = {}, !.expandedIdentifiers = {}]

hasExpandedIdentifier(s, identifier) == identifier \in s.expandedIdentifiers

markIdentifierExpanded(s, identifier) ==
    [s EXCEPT !.expandedIdentifiers = @ \cup {identifier}]

FrameworkState_reset(s) ==
    [s EXCEPT !.activeFrameworkData = {},
              !.frameworkIndex = {},
              !.expandedIdentifiers = {}]

(***************************************************************************)
(* SearchState                                                             *)
(***************************************************************************)
setLastDiscovery(s, lastDiscovery) == [s EXCEPT !.lastDiscovery = lastDiscovery]

getLocalSymbolIndex(s) == s.localSymbolIndex

setLocalSymbolIndex(s, index) == [s EXCEPT !.localSymbolIndex = {index}]

clearLocalSymbolIndex(s) == [s EXCEPT !.localSymbolIndex = {}]

SearchState_keepLocalSymbolIndex(s) == s

SearchState_resetForTechnologyChange(s) == [s EXCEPT !.localSymbolIndex = {}]

(***************************************************************************)
(* ServerState                                                             *)
(***************************************************************************)
resetForTechnologyChange(s) ==
    SearchState_resetForTechnologyChange(FrameworkState_reset(s))

setActiveTechnology(s, technology) ==
    LET previousIdentifier == Identifier(s.activeTechnology)
        s1 == TechnologyState_setActiveTechnology(s, technology)
    IN  IF hasChanged(s1, previousIdentifier)
        THEN resetForTechnologyChange(s1)
        ELSE s1

\* new ServerState()
NewServerState ==
    [activeTechnology |-> {},
     activeFrameworkData |-> {},
     frameworkIndex |-> {},
     expandedIdentifiers |-> {},
     lastDiscovery |-> {},
     localSymbolIndex |-> {}]

(***************************************************************************)
(* LocalSymbolIndex objects.  Construction appends a fresh object to       *)
(* `indexes`; session state holds a reference to one of them.              *)
(***************************************************************************)
MaxIndexes == 2

\* String.prototype.replace(piece, ''): the first occurrence only
RECURSIVE RemoveFirst(_, _)
RemoveFirst(str, piece) ==
    IF str = <<>> THEN <<>>
    ELSE IF Head(str) = piece THEN Tail(str)
    ELSE <<Head(str)>> \o RemoveFirst(Tail(str), piece)

\* String.prototype.replace(/^piece/, '')
RemoveLeading(str, piece) ==
    IF str # <<>> /\ Head(str) = piece THEN Tail(str) ELSE str

\* '' || undefined
extractTechnologyPath(identifier) ==
    LET path == RemoveLeading(RemoveFirst(identifier, "doc://com.apple.documentation/"),
                              "documentation/")
    IN  IF path = <<>> THEN {} ELSE {path}

\* new LocalSymbolIndex(client, technologyIdentifier)
NewLocalSymbolIndex(technologyIdentifier) ==
    [technologyIdentifier |-> technologyIdentifier,
     state |-> "uninitialized",
     symbols |-> <<>>]

createLocalSymbolIndex(technology) ==
    NewLocalSymbolIndex(extractTechnologyPath(technology.identifier))

(***************************************************************************)
(* The cache directory read by buildIndexFromCache.  A file is what the    *)
(* build can tell of it: its name, whether JSON.parse accepts its text,    *)
(* which schemas its value satisfies, and the fields processSymbolData     *)
(* and processReferences read.  references keeps the order of              *)
(* Object.entries.                                                         *)
(***************************************************************************)
ViewRefs ==
    << [refId |-> <<"doc://swiftui/Button">>, kind |-> <<"symbol">>, title |-> <<"Button">>,
        url |-> <<"/documentation/", "SwiftUI", "/button">>,
        abstract |-> <<"a view control">>, platforms |-> <<>>],
       [refId |-> <<"doc://swiftui/view-hero.png">>, kind |-> <<>>, title |-> <<>>,
        url |-> <<>>, abstract |-> <<>>, platforms |-> <<>>],
       [refId |-> <<"doc://uikit/UIView">>, kind |-> <<"symbol">>, title |-> <<"UIView">>,
        url |-> <<"/documentation/", "uikit", "/uiview">>,
        abstract |-> <<"a view">>, platforms |-> << <<"iOS">> >>] >>

NoData ==
    [title |-> <<>>, url |-> <<>>, symbolKind |-> <<>>, abstract |-> <<>>,
     platforms |-> <<>>, references |-> <<>>]

CacheDirectory ==
    << [name |-> "view.json", json |-> TRUE, parses |-> TRUE,
        symbolSchema |-> TRUE, frameworkSchema |-> TRUE,
        data |-> [title |-> <<"View">>, url |-> <<"/documentation/", "swiftui", "/view">>,
                  symbolKind |-> <<"protocol">>, abstract |-> <<"a view type">>,
                  platforms |-> << <<"iOS">> >>, references |-> ViewRefs]],
       [name |-> "broken.json", json |-> TRUE, parses |-> FALSE,
        symbolSchema |-> FALSE, frameworkSchema |-> FALSE, data |-> NoData],
       [name |-> "notes.txt", json |-> FALSE, parses |-> FALSE,
        symbolSchema |-> FALSE, frameworkSchema |-> FALSE, data |-> NoData],
       [name |-> "swiftui.json", json |-> TRUE, parses |-> TRUE,
        symbolSchema |-> FALSE, frameworkSchema |-> TRUE,
        data |-> [NoData EXCEPT !.title = <<"SwiftUI">>, !.abstract = <<"views">>]],
       [name |-> "other.json", json |-> TRUE, parses |-> TRUE,
        symbolSchema |-> FALSE, frameworkSchema |-> FALSE, data |-> NoData],
       [name |-> "uibutton.json", json |-> TRUE, parses |-> TRUE,
        symbolSchema |-> TRUE, frameworkSchema |-> TRUE,
        data |-> [title |-> <<"UIButton">>, url |-> <<"/documentation/", "uikit", "/uibutton">>,
                  symbolKind |-> <<"class">>, abstract |-> <<"a control">>,
                  platforms |-> << <<"iOS">> >>, references |-> <<>>]] >>

\* how many files of CacheDirectory the directory holds
NumFiles == 5

\* config.indexing.batchSize as configured for the model (APPLE_DOC_INDEX_BATCH_SIZE)
BatchSize == 2

\* readdir(cacheDir)
allFiles == 1..NumFiles

\* allFiles.filter(file => file.endsWith('.json')), as a set
JsonFileSet == {f \in allFiles : CacheDirectory[f].json}

\* a file whose text parses and satisfies the symbol or the framework schema
ValidDocument(file) == file.parses /\ (file.symbolSchema \/ file.frameworkSchema)

\* String.prototype.toLowerCase
LowerPiece(piece) ==
    CASE piece = "SwiftUI" -> "swiftui"
      [] piece = "UIKit" -> "uikit"
      [] piece = "Swift" -> "swift"
      [] piece = "UI" -> "ui"
      [] piece = "Kit" -> "kit"
      [] piece = "Tutorials" -> "tutorials"
      [] OTHER -> piece

toLowerCase(str) == [i \in 1..Len(str) |-> LowerPiece(str[i])]

\* String.prototype.includes
includes(str, sub) ==
    \E i \in 1..(Len(str) + 1) :
        /\ i + Len(sub) - 1 <= Len(str)
        /\ SubSeq(str, i, i + Len(sub) - 1) = sub

\* String.prototype.startsWith
startsWith(str, prefix) ==
    Len(prefix) <= Len(str) /\ SubSeq(str, 1, Len(prefix)) = prefix

\* Map.prototype.set: a present key keeps its place, a new key goes last
MapSet(symbols, entry) ==
    IF \E i \in 1..Len(symbols) : symbols[i].id = entry.id
    THEN [i \in 1..Len(symbols) |-> IF symbols[i].id = entry.id THEN entry ELSE symbols[i]]
    ELSE Append(symbols, entry)

\* the technology filter of processSymbolData and processReferences
SkippedByTechnology(technologyIdentifier, path) ==
    /\ technologyIdentifier # {}
    /\ path # <<>>
    /\ \A t \in technologyIdentifier : ~includes(toLowerCase(path), toLowerCase(t))

RECURSIVE processReferences(_, _, _, _)
processReferences(symbols, technologyIdentifier, references, filePath) ==
    IF references = <<>> THEN symbols
    ELSE LET ref == Head(references)
             refEntry == [id |-> ref.refId, title |-> ref.title, path |-> ref.url,
                          kind |-> ref.kind, abstract |-> ref.abstract,
                          platforms |-> ref.platforms, filePath |-> filePath]
             next == IF /\ ref.kind = <<"symbol">>
                        /\ ref.title # <<>>
                        /\ ~SkippedByTechnology(technologyIdentifier, ref.url)
                     THEN MapSet(symbols, refEntry)
                     ELSE symbols
         IN  processReferences(next, technologyIdentifier, Tail(references), filePath)

\* processSymbolData(data, filePath): the symbol table after it
processSymbolData(index, data, filePath) ==
    LET title == IF data.title # <<>> THEN data.title ELSE <<"Unknown">>
        path == data.url
        kind == IF data.symbolKind # <<>> THEN data.symbolKind ELSE <<"framework">>
        entry == [id |-> IF path # <<>> THEN path ELSE title,
                  title |-> title, path |-> path, kind |-> kind,
                  abstract |-> data.abstract, platforms |-> data.platforms,
                  filePath |-> filePath]
    IN  IF SkippedByTechnology(index.technologyIdentifier, path)
        THEN index.symbols
        ELSE processReferences(MapSet(index.symbols, entry), index.technologyIdentifier,
                               data.references, filePath)

\* processFile(file), the read having ended as `read`: "content", "error" or "timeout"
processFile(index, file, read) ==
    IF read # "content" \/ ~file.parses
    THEN [index |-> index, success |-> FALSE]
    ELSE IF file.symbolSchema \/ file.frameworkSchema
    THEN [index |-> [index EXCEPT !.symbols = processSymbolData(index, file.data, file.name)],
          success |-> TRUE]
    ELSE [index |-> index, success |-> FALSE]

\* buildIndexFromCache, entry: whether the call returns at once
buildSkipsOnlyReady(index) == index.state = "ready"

buildSkips(index) == index.state = "ready" \/ index.state = "building"

buildStart(index) == [index EXCEPT !.state = "building"]

\* buildIndexFromCache, access(cacheDir) threw
accessFailedFails(index) == [index EXCEPT !.state = "failed"]

accessFailed(index) == [index EXCEPT !.state = "ready"]

\* buildIndexFromCache, the last batch is done
buildCompleteCountsErrors(index, errorCount) ==
    [index EXCEPT !.state = IF errorCount > 0 THEN "failed" ELSE "ready"]

buildComplete(index, errorCount) == [index EXCEPT !.state = "ready"]

\* buildIndexFromCache, the outer catch
buildFailed(index) == [index EXCEPT !.state = "failed"]

clearKeepsState(index) == [index EXCEPT !.symbols = <<>>]

\* LocalSymbolIndex.clear()
clear(index) == [index EXCEPT !.symbols = <<>>, !.state = "uninitialized"]

getSymbolCount(index) == Len(index.symbols)

(***************************************************************************)
(* Text as search and the tokenizer see it: a sequence of characters.      *)
(* Chars spells the pieces that the strings of the cache directory and of  *)
(* the queries are written with.                                           *)
(***************************************************************************)
Chars(piece) ==
    CASE piece = "View" -> <<"V", "i", "e", "w">>
      [] piece = "Button" -> <<"B", "u", "t", "t", "o", "n">>
      [] piece = "UIView" -> <<"U", "I", "V", "i", "e", "w">>
      [] piece = "SwiftUI" -> <<"S", "w", "i", "f", "t", "U", "I">>
      [] piece = "UIButton" -> <<"U", "I", "B", "u", "t", "t", "o", "n">>
      [] piece = "Unknown" -> <<"U", "n", "k", "n", "o", "w", "n">>
      [] piece = "/documentation/" -> <<"/", "d", "o", "c", "u", "m", "e", "n", "t", "a", "t", "i", "o", "n", "/">>
      [] piece = "swiftui" -> <<"s", "w", "i", "f", "t", "u", "i">>
      [] piece = "uikit" -> <<"u", "i", "k", "i", "t">>
      [] piece = "/view" -> <<"/", "v", "i", "e", "w">>
      [] piece = "/button" -> <<"/", "b", "u", "t", "t", "o", "n">>
      [] piece = "/uiview" -> <<"/", "u", "i", "v", "i", "e", "w">>
      [] piece = "/uibutton" -> <<"/", "u", "i", "b", "u", "t", "t", "o", "n">>
      [] piece = "a view control" -> <<"a", " ", "v", "i", "e", "w", " ", "c", "o", "n", "t", "r", "o", "l">>
      [] piece = "a view type" -> <<"a", " ", "v", "i", "e", "w", " ", "t", "y", "p", "e">>
      [] piece = "a view" -> <<"a", " ", "v", "i", "e", "w">>
      [] piece = "views" -> <<"v", "i", "e", "w", "s">>
      [] piece = "a control" -> <<"a", " ", "c", "o", "n", "t", "r", "o", "l">>
      [] piece = "iOS" -> <<"i", "O", "S">>
      [] piece = "view" -> <<"v", "i", "e", "w">>
      [] piece = "ui*" -> <<"u", "i", "*">>
      [] piece = "?iew" -> <<"?", "i", "e", "w">>
      [] piece = "grid" -> <<"g", "r", "i", "d">>
      [] piece = "*" -> <<"*">>

\* the characters of a string given by its pieces
RECURSIVE Text(_)
Text(str) == IF str = <<>> THEN <<>> ELSE Chars(Head(str)) \o Text(Tail(str))

UpperCaseLetters ==
    <<"A", "B", "C", "D", "E", "F", "G", "H", "I", "J", "K", "L", "M",
      "N", "O", "P", "Q", "R", "S", "T", "U", "V", "W", "X", "Y", "Z">>

LowerCaseLetters ==
    <<"a", "b", "c", "d", "e", "f", "g", "h", "i", "j", "k", "l", "m",
      "n", "o", "p", "q", "r", "s", "t", "u", "v", "w", "x", "y", "z">>

\* /[A-Z]/
IsUpperCase(c) == \E i \in DOMAIN UpperCaseLetters : UpperCaseLetters[i] = c

\* String.prototype.toLowerCase, on characters
lowerCase(text) ==
    [i \in 1..Len(text) |->
        IF IsUpperCase(text[i])
        THEN LowerCaseLetters[CHOOSE k \in DOMAIN UpperCaseLetters : UpperCaseLetters[k] = text[i]]
        ELSE text[i]]

\* /[\s/._-]/
IsDelimiter(c) == c \in {" ", "/", ".", "_", "-"}

\* text.split(separator).filter(Boolean): the non-empty runs between the
\* separators.  The separator /[\s/._-]+/ is a run of delimiters, which the
\* split drops; /(?=[A-Z])/ is the empty place before an upper-case letter.
RECURSIVE SplitRuns(_, _, _, _)
SplitRuns(text, i, run, beforeUpperCase) ==
    LET flush == IF run = <<>> THEN <<>> ELSE <<run>>
    IN  IF i > Len(text) THEN flush
        ELSE IF beforeUpperCase /\ IsUpperCase(text[i])
        THEN flush \o SplitRuns(text, i + 1, <<text[i]>>, beforeUpperCase)
        ELSE IF ~beforeUpperCase /\ IsDelimiter(text[i])
        THEN flush \o SplitRuns(text, i + 1, <<>>, beforeUpperCase)
        ELSE SplitRuns(text, i + 1, Append(run, text[i]), beforeUpperCase)

\* text.split(/[\s/._-]+/).filter(Boolean)
basicTokens(text) == SplitRuns(text, 1, <<>>, FALSE)

\* token.split(/(?=[A-Z])/).filter(Boolean)
camelParts(token) == SplitRuns(token, 1, <<>>, TRUE)

Range(seq) == {seq[i] : i \in DOMAIN seq}

\* tokenize(text), the tokens as a set
tokenize(text) ==
    UNION { {lowerCase(token), token} \cup
            (IF Len(camelParts(token)) > 1
             THEN UNION {{lowerCase(part), part} : part \in Range(camelParts(token))}
                  \cup {lowerCase(token)}
             ELSE {})
          : token \in Range(basicTokens(text)) }

\* createSearchTokens(title, abstract, path, platforms)
createSearchTokens(title, abstract, path, platforms) ==
    tokenize(title) \cup tokenize(abstract) \cup tokenize(path)
        \cup UNION {tokenize(Text(platforms[i])) : i \in DOMAIN platforms}

\* entry.tokens: set once, when processSymbolData or processReferences makes the entry
EntryTokens(entry) ==
    createSearchTokens(Text(entry.title), Text(entry.abstract), Text(entry.path),
                       entry.platforms)

\* query.includes('*') || query.includes('?')
hasWildcards(query) == \E i \in DOMAIN query : query[i] \in {"*", "?"}

\* new RegExp(`^${escaped}$`): in escaped every character of the query stands
\* for itself, in lower case, but * (any characters) and ? (any one character).
\* The pattern is always a valid one, so the regex is always defined.
wildcardRegex(query) == IF hasWildcards(query) THEN {lowerCase(query)} ELSE {}

\* regex.test(text) for the regex of the pattern
RECURSIVE RegExpTest(_, _)
RegExpTest(pattern, text) ==
    IF pattern = <<>> THEN text = <<>>
    ELSE IF Head(pattern) = "*"
    THEN \E k \in 0..Len(text) : RegExpTest(Tail(pattern), SubSeq(text, k + 1, Len(text)))
    ELSE /\ text # <<>>
         /\ Head(pattern) = "?" \/ Head(pattern) = Head(text)
         /\ RegExpTest(Tail(pattern), Tail(text))

\* what one query token adds to the score of an entry
tokenScore(entry, queryToken) ==
    (IF includes(lowerCase(Text(entry.title)), lowerCase(queryToken)) THEN 50 ELSE 0)
    + (IF queryToken \in EntryTokens(entry) THEN 30 ELSE 0)
    + (IF includes(lowerCase(Text(entry.abstract)), lowerCase(queryToken)) THEN 10 ELSE 0)

RECURSIVE SumTokenScores(_, _)
SumTokenScores(entry, queryTokens) ==
    IF queryTokens = {} THEN 0
    ELSE LET queryToken == CHOOSE t \in queryTokens : TRUE
         IN  tokenScore(entry, queryToken) + SumTokenScores(entry, queryTokens \ {queryToken})

\* the score that the loop of search gives an entry
score(entry, query) ==
    IF hasWildcards(query) /\ wildcardRegex(query) # {}
    THEN IF \E regex \in wildcardRegex(query) :
                \/ RegExpTest(regex, lowerCase(Text(entry.title)))
                \/ RegExpTest(regex, lowerCase(Text(entry.path)))
                \/ \E token \in EntryTokens(entry) : RegExpTest(regex, token)
         THEN 100 ELSE 0
    ELSE IF hasWildcards(query)
    THEN IF \/ includes(lowerCase(Text(entry.title)), lowerCase(query))
            \/ includes(lowerCase(Text(entry.path)), lowerCase(query))
         THEN 50 ELSE 0
    ELSE SumTokenScores(entry, tokenize(query))

\* results.sort((a, b) => b.score - a.score): a stable sort, greatest score first
RECURSIVE sortUnstable(_)
sortUnstable(results) ==
    IF results = <<>> THEN <<>>
    ELSE LET rest == sortUnstable(Tail(results))
             k == Cardinality({i \in DOMAIN rest : rest[i].score >= Head(results).score})
         IN  SubSeq(rest, 1, k) \o <<Head(results)>> \o SubSeq(rest, k + 1, Len(rest))

RECURSIVE sort(_)
sort(results) ==
    IF results = <<>> THEN <<>>
    ELSE LET rest == sort(Tail(results))
             k == Cardinality({i \in DOMAIN rest : rest[i].score > Head(results).score})
         IN  SubSeq(rest, 1, k) \o <<Head(results)>> \o SubSeq(rest, k + 1, Len(rest))

\* array.slice(0, end), end >= 0
slice(array, end) == SubSeq(array, 1, IF end < Len(array) THEN end ELSE Len(array))

\* the results array that the loop of search fills
scored(index, query) ==
    LET all == [i \in DOMAIN index.symbols |->
                    [entry |-> index.symbols[i], score |-> score(index.symbols[i], Text(query))]]
        Positive(result) == result.score > 0
    IN  SelectSeq(all, Positive)

searchThrowsUnlessReady(index) == index.state # "ready"

\* whether search throws: no statement of it can
searchThrows(index) == FALSE

\* LocalSymbolIndex.search(query, maxResults): the index after the call, whether
\* it threw, and the entries returned
search(index, query, maxResults) ==
    IF searchThrows(index)
    THEN [index |-> index, threw |-> TRUE, results |-> <<>>]
    ELSE LET top == slice(sort(scored(index, query)), maxResults)
         IN  [index |-> index, threw |-> FALSE,
              results |-> [i \in DOMAIN top |-> top[i].entry]]

NoSearch ==
    [called |-> FALSE, query |-> <<>>, maxResults |-> 0, threw |-> FALSE,
     results |-> <<>>, pre |-> NewLocalSymbolIndex({})]

SearchIdle == searched = NoSearch

\* the .json files of the listing, in its order
RECURSIVE JsonFiles(_)
JsonFiles(n) ==
    IF n = 0 THEN <<>>
    ELSE IF CacheDirectory[n].json THEN Append(JsonFiles(n - 1), n) ELSE JsonFiles(n - 1)

\* files.slice(index, index + batchSize), as a set of positions in files
Batch(files, index) ==
    {i \in 1..Len(files) : index < i /\ i <= index + BatchSize}

MaxBuilds == 2

Builds == 1..MaxBuilds

\* a call slot with no call made.  History, beside the locals of the code:
\* enumerated (readdir returned), read (the files whose read ended), indexed (the
\* files read whole and valid), afterClear (the call directly followed a clear()),
\* cleared (clear() ran during the call)
NoBuild ==
    [pc |-> "idle", files |-> <<>>, index |-> 0, pending |-> {}, succeeded |-> {},
     processedCount |-> 0, errorCount |-> 0,
     enumerated |-> FALSE, read |-> {}, indexed |-> {}, afterClear |-> FALSE,
     cleared |-> FALSE]

IndexIdle ==
    /\ localIndex = NewLocalSymbolIndex({})
    /\ dir = "missing"
    /\ build = [b \in Builds |-> NoBuild]
    /\ indexOp = [op |-> "new", b |-> 0, pre |-> NewLocalSymbolIndex({})]

(***************************************************************************)
(* MemoryCache (apple-client/cache/memory-cache.ts).  The Map is the       *)
(* sequence of its entries in insertion order: Map.delete takes an entry   *)
(* out, Map.set of an absent key puts one at the end.                      *)
(***************************************************************************)
\* how many keys the callers use
NumKeys == 3

CacheKeys == 1..NumKeys

CacheData == {"data1", "data2"}

\* the greatest maxSize a cache of the model is constructed with
MaxCacheSize == 2

\* the cacheTimeout the caches of the model are constructed with
CacheTimeout == 2

\* the last instant of the clock
MaxTime == 3

\* new MemoryCache(timeoutMs, maxSize)
NewMemoryCache(timeoutMs, maxSize) ==
    [entries |-> <<>>, cacheTimeout |-> timeoutMs, maxSize |-> maxSize]

\* this.cache.has(key)
has(entries, key) == \E i \in DOMAIN entries : entries[i].key = key

\* this.cache.get(key), as a set
entryOf(entries, key) == {entries[i] : i \in {j \in DOMAIN entries : entries[j].key = key}}

\* this.cache.delete(key)
delete(entries, key) ==
    LET Other(entry) == entry.key # key
    IN  SelectSeq(entries, Other)

isFreshInclusive(c, cached, time) == time - cached.timestamp <= c.cacheTimeout

\* Date.now() - cached.timestamp < this.cacheTimeout
isFresh(c, cached, time) == time - cached.timestamp < c.cacheTimeout

touchKeepsPlace(entries, cached) == entries

\* this.cache.delete(key); this.cache.set(key, cached)
touch(entries, cached) == Append(delete(entries, cached.key), cached)

\* a mutation of get: a hit stamps the entry with the time of the read
MemoryCache_getRenews(c, key, time) ==
    LET cached == entryOf(c.entries, key)
    IN  IF \E e \in cached : isFresh(c, e, time)
        THEN LET e == CHOOSE e \in cached : TRUE
             IN  [cache |-> [c EXCEPT !.entries = touch(c.entries, [e EXCEPT !.timestamp = time])],
                  returned |-> {e.data}]
        ELSE [cache |-> [c EXCEPT !.entries = delete(c.entries, key)], returned |-> {}]

\* get(key): the cache after the call and what it returned
MemoryCache_get(c, key, time) ==
    LET cached == entryOf(c.entries, key)
    IN  IF \E e \in cached : isFresh(c, e, time)
        THEN LET e == CHOOSE e \in cached : TRUE
             IN  [cache |-> [c EXCEPT !.entries = touch(c.entries, e)], returned |-> {e.data}]
        ELSE [cache |-> [c EXCEPT !.entries = delete(c.entries, key)], returned |-> {}]

\* this.cache.delete(this.cache.keys().next().value), when there is a first key
evictOldest(entries) == IF entries = <<>> THEN entries ELSE Tail(entries)

\* set(key, data): the cache after the call
MemoryCache_set(c, key, data, time) ==
    LET kept == IF has(c.entries, key) THEN delete(c.entries, key)
                ELSE IF Len(c.entries) >= c.maxSize THEN evictOldest(c.entries)
                ELSE c.entries
    IN  [c EXCEPT !.entries = Append(kept, [key |-> key, data |-> data, timestamp |-> time])]

\* clear()
MemoryCache_clear(c) == [c EXCEPT !.entries = <<>>]

\* get size()
MemoryCache_size(c) == Len(c.entries)

\* the greatest number of hits of one entry that is counted
MaxHits == 2

NeverSet == [set |-> FALSE, time |-> 0, data |-> "", dropped |-> FALSE, hits |-> 0]

CacheIdle ==
    /\ cache = NewMemoryCache(CacheTimeout, MaxCacheSize)
    /\ now = 0
    /\ cacheOp = [op |-> "new", key |-> 0, pre |-> NewMemoryCache(CacheTimeout, MaxCacheSize),
                  returned |-> {}, lru |-> {}]
    /\ lastSet = [k \in CacheKeys |-> NeverSet]
    /\ recency = <<>>

(***************************************************************************)
(* HttpClient (apple-client/http-client.ts).  What axios.get settles with  *)
(* is a record: a response carries data, a rejection carries the error.    *)
(* The data of a response is told by what validateResponse reads of it.    *)
(***************************************************************************)
\* config.http.baseRetryDelayMs
BaseRetryDelayMs == 500

\* config.http.maxRetryAttempts, the default
DefaultMaxRetryAttempts == 3

\* how many makeRequest calls are made
NumRequests == 2

Requests == 1..NumRequests

\* the URLs requested, which are the keys of the response cache
Urls == {k \in CacheKeys : k <= NumRequests}

NoResponseData ==
    [type |-> "undefined", keys |-> {}, error |-> "", errors |-> <<>>, payload |-> ""]

\* a documentation object
Document(payload) ==
    [NoResponseData EXCEPT !.type = "object", !.keys = {"metadata"}, !.payload = payload]

ValidData ==
    { Document("doc1"),
      [Document("doc2") EXCEPT !.keys = {"metadata", "error", "errors"}] }

InvalidData ==
    { NoResponseData,
      [NoResponseData EXCEPT !.type = "null"],
      [NoResponseData EXCEPT !.type = "string"],
      [NoResponseData EXCEPT !.type = "array"],
      [NoResponseData EXCEPT !.type = "object"],
      [NoResponseData EXCEPT !.type = "object", !.keys = {"error"}, !.error = "Not found"],
      [NoResponseData EXCEPT !.type = "object", !.keys = {"errors"}, !.errors = <<"failed">>] }

NoError == [isAxiosError |-> FALSE, code |-> "", status |-> 0, message |-> ""]

\* createNetworkError(code, message), createHttpError(status, message), new Error(message)
TransportErrors ==
    { [NoError EXCEPT !.isAxiosError = TRUE, !.code = "ECONNRESET"],
      [NoError EXCEPT !.isAxiosError = TRUE, !.status = 503],
      [NoError EXCEPT !.isAxiosError = TRUE, !.status = 404],
      [NoError EXCEPT !.message = "Generic error"] }

\* validateResponse(data, url): the error it throws, if any
validateResponse(data) ==
    IF data.type \in {"null", "undefined"}
    THEN {[NoError EXCEPT !.message = "API returned null or undefined response"]}
    ELSE IF data.type # "object"
    THEN {[NoError EXCEPT !.message = "API returned unexpected type"]}
    ELSE IF data.keys = {}
    THEN {[NoError EXCEPT !.message = "API returned empty object"]}
    ELSE IF "error" \in data.keys /\ data.error # ""
    THEN {[NoError EXCEPT !.message = "API returned error"]}
    ELSE IF "errors" \in data.keys /\ Len(data.errors) > 0
    THEN {[NoError EXCEPT !.message = "API returned errors"]}
    ELSE {}

isRetryableErrorAnyAxios(error) == error.isAxiosError

isRetryableError(error) ==
    /\ error.isAxiosError
    /\ \/ error.code \in {"ECONNRESET", "ETIMEDOUT", "ECONNABORTED"}
       \/ error.status \in {503, 429, 500, 502, 504}

\* attempt < config.http.maxRetryAttempts
mayRetry(attempt, maxRetryAttempts) == attempt < maxRetryAttempts

delayMsFromSecondPower(attempt) == BaseRetryDelayMs * (2 ^ attempt)

\* config.http.baseRetryDelayMs * (2 ** (attempt - 1))
delayMs(attempt) == BaseRetryDelayMs * (2 ^ (attempt - 1))

\* new Error(`Failed to fetch documentation: ...`, {cause: error})
FailedToFetch(error) == [message |-> "Failed to fetch documentation", cause |-> error]

cachedOnFirstAttempt(c, url, attempt, time) ==
    IF attempt = 1 THEN MemoryCache_get(c, url, time) ELSE [cache |-> c, returned |-> {}]

\* this.cache.get(url) at the head of makeRequest(path, attempt)
cached(c, url, attempt, time) == MemoryCache_get(c, url, time)

\* a request not made.  History, beside the locals: calls (the axios.get calls
\* made), delays (the waits, in order), outcomes (what the calls settled with),
\* check (the last look into the cache: whether an unexpired entry was there,
\* its data, and the calls made before it)
NoCheck == [attempt |-> 0, fresh |-> FALSE, data |-> {}, calls |-> 0]

NoRequest ==
    [pc |-> "idle", url |-> 0, attempt |-> 0, result |-> {}, error |-> {},
     calls |-> 0, delays |-> <<>>, outcomes |-> <<>>, check |-> NoCheck]

\* makeRequest(path, attempt) up to its first await: the request and the cache after it
makeRequest(request, c, url, attempt, time) ==
    LET got == cached(c, url, attempt, time)
        unexpired == {e \in entryOf(c.entries, url) : time - e.timestamp < c.cacheTimeout}
        looked == [request EXCEPT !.url = url, !.attempt = attempt,
                                  !.check = [attempt |-> attempt, fresh |-> unexpired # {},
                                             data |-> {e.data : e \in unexpired},
                                             calls |-> request.calls]]
    IN  IF got.returned # {}
        THEN [req |-> [looked EXCEPT !.pc = "returned", !.result = got.returned],
              cache |-> got.cache]
        ELSE [req |-> [looked EXCEPT !.pc = "network", !.calls = @ + 1],
              cache |-> got.cache]

cachedBeforeValidation(c, url, data, time) == MemoryCache_set(c, url, data, time)

\* the cache when validateResponse has thrown: this.cache.set is not reached
cacheOnRejection(c, url, data, time) == c

\* the catch block of makeRequest
catch(request, error, maxRetryAttempts) ==
    IF isRetryableError(error) /\ mayRetry(request.attempt, maxRetryAttempts)
    THEN [request EXCEPT !.pc = "delay", !.delays = Append(@, delayMs(request.attempt))]
    ELSE [request EXCEPT !.pc = "threw", !.error = {FailedToFetch(error)}]

HttpIdle ==
    /\ http = [maxRetryAttempts |-> DefaultMaxRetryAttempts]
    /\ req = [r \in Requests |-> NoRequest]

(***************************************************************************)
(* FileCache (apple-client/cache/file-cache.ts): JSON documents on disk.   *)
(* A JavaScript value is a record [type, text, keys, fields]: keys is the  *)
(* property order of an object or an array, fields the property values.    *)
(***************************************************************************)
JUndefined == [type |-> "undefined", text |-> "", keys |-> <<>>, fields |-> <<>>]

JNull == [type |-> "null", text |-> "", keys |-> <<>>, fields |-> <<>>]

JString(text) == [type |-> "string", text |-> text, keys |-> <<>>, fields |-> <<>>]

JNumber(text) == [type |-> "number", text |-> text, keys |-> <<>>, fields |-> <<>>]

JObject(keys, fields) == [type |-> "object", text |-> "", keys |-> keys, fields |-> fields]

\* the property names of the elements of an array
Index == <<"0", "1", "2">>

JArray(items) ==
    [type |-> "array", text |-> "", keys |-> SubSeq(Index, 1, Len(items)),
     fields |-> [k \in {Index[i] : i \in 1..Len(items)} |->
                    items[CHOOSE i \in 1..Len(items) : Index[i] = k]]]

\* key in value
in(key, value) == \E i \in DOMAIN value.keys : value.keys[i] = key

\* typeof value === 'object' && value !== null
isObject(value) == value.type \in {"object", "array"}

\* Object.keys(value).length > 0
hasKeys(value) ==
    \/ isObject(value) /\ value.keys # <<>>
    \/ value.type = "string" /\ value.text # ""

\* JSON.stringify(value), as the value that JSON.parse reads back: a property
\* whose value is undefined is left out, an undefined element becomes null
RECURSIVE JSON_stringify(_)
JSON_stringify(value) ==
    IF value.type = "object"
    THEN LET kept == SelectSeq(value.keys, LAMBDA k : value.fields[k].type # "undefined")
         IN  JObject(kept, [k \in {kept[i] : i \in DOMAIN kept} |->
                                JSON_stringify(value.fields[k])])
    ELSE IF value.type = "array"
    THEN [value EXCEPT !.fields =
            [k \in DOMAIN value.fields |->
                IF value.fields[k].type = "undefined" THEN JNull
                ELSE JSON_stringify(value.fields[k])]]
    ELSE value

\* the text of a file: a JSON text, or a text that JSON.parse rejects
JsonText(value) == [syntax |-> "json", value |-> value]

Malformed == [syntax |-> "malformed", value |-> JNull]

\* z.string().optional() and the like: the property is absent or passes
optional(value, key, passes(_)) == in(key, value) => passes(value.fields[key])

isString(value) == value.type = "string"

arrayOf(value, passes(_)) ==
    /\ value.type = "array"
    /\ \A k \in DOMAIN value.fields : passes(value.fields[k])

\* z.record(z.string(), schema)
recordOf(value, passes(_)) ==
    /\ value.type = "object"
    /\ \A k \in DOMAIN value.fields : passes(value.fields[k])

required(value, key, passes(_)) == in(key, value) /\ passes(value.fields[key])

AbstractItemSchema(value) ==
    /\ value.type = "object"
    /\ optional(value, "text", isString)
    /\ required(value, "type", isString)

PlatformInfoSchema(value) ==
    /\ value.type = "object"
    /\ required(value, "name", isString)
    /\ optional(value, "introducedAt", isString)

ReferenceDataSchema(value) ==
    /\ value.type = "object"
    /\ optional(value, "title", isString)
    /\ optional(value, "kind", isString)
    /\ optional(value, "url", isString)
    /\ optional(value, "abstract", LAMBDA v : arrayOf(v, AbstractItemSchema))
    /\ optional(value, "platforms", LAMBDA v : arrayOf(v, PlatformInfoSchema))

TopicSectionSchema(value) ==
    /\ value.type = "object"
    /\ optional(value, "anchor", isString)
    /\ required(value, "identifiers", LAMBDA v : arrayOf(v, isString))
    /\ required(value, "title", isString)

PrimaryContentSectionSchema(value) ==
    /\ value.type = "object"
    /\ required(value, "kind", isString)

FrameworkMetadataSchema(value) ==
    /\ value.type = "object"
    /\ optional(value, "platforms", LAMBDA v : arrayOf(v, PlatformInfoSchema))
    /\ optional(value, "role", isString)
    /\ required(value, "title", isString)

FrameworkDataSchema(value) ==
    /\ value.type = "object"
    /\ optional(value, "abstract", LAMBDA v : arrayOf(v, AbstractItemSchema))
    /\ required(value, "metadata", FrameworkMetadataSchema)
    /\ optional(value, "references", LAMBDA v : recordOf(v, ReferenceDataSchema))
    /\ optional(value, "topicSections", LAMBDA v : arrayOf(v, TopicSectionSchema))

SymbolMetadataSchema(value) ==
    /\ value.type = "object"
    /\ optional(value, "platforms", LAMBDA v : arrayOf(v, PlatformInfoSchema))
    /\ optional(value, "symbolKind", isString)
    /\ required(value, "title", isString)
    /\ optional(value, "roleHeading", isString)

SymbolDataSchema(value) ==
    /\ value.type = "object"
    /\ optional(value, "abstract", LAMBDA v : arrayOf(v, AbstractItemSchema))
    /\ required(value, "metadata", SymbolMetadataSchema)
    /\ optional(value, "primaryContentSections",
                LAMBDA v : arrayOf(v, PrimaryContentSectionSchema))
    /\ optional(value, "references", LAMBDA v : recordOf(v, ReferenceDataSchema))
    /\ optional(value, "topicSections", LAMBDA v : arrayOf(v, TopicSectionSchema))

\* what a schema hands back for a value that passes: .passthrough() keeps the
\* properties the schema does not name
safeParseStrips(value, known) ==
    LET kept == SelectSeq(value.keys, LAMBDA k : k \in known)
    IN  JObject(kept, [k \in {kept[i] : i \in DOMAIN kept} |-> value.fields[k]])

safeParse(value, known) == value

FrameworkDataKeys == {"abstract", "metadata", "references", "topicSections"}

SymbolDataKeys ==
    {"abstract", "metadata", "primaryContentSections", "references", "topicSections"}

\* framework names, character by character
Core_ML == <<"C", "o", "r", "e", "_", "M", "L">>

CoreSpaceML == <<"C", "o", "r", "e", " ", "M", "L">>

technologies == <<"t", "e", "c", "h", "n", "o", "l", "o", "g", "i", "e", "s">>

FrameworkNames == {Core_ML, CoreSpaceML, technologies}

\* symbol paths, character by character
SymbolPaths ==
    { <<"C", "o", "r", "e", "M", "L", "/", "M", "L">>,
      <<"V", "i", "s", "i", "o", "n", "/", "M", "L", "/">> }

Digits == <<"0", "1", "2", "3", "4", "5", "6", "7", "8", "9">>

\* /[\w-]/
IsWordOrHyphen(c) ==
    \/ IsUpperCase(c)
    \/ \E i \in DOMAIN LowerCaseLetters : LowerCaseLetters[i] = c
    \/ \E i \in DOMAIN Digits : Digits[i] = c
    \/ c \in {"_", "-"}

\* name.replaceAll(/[^\w-]/gi, '_')
sanitizeFrameworkName(name) ==
    [i \in DOMAIN name |-> IF IsWordOrHyphen(name[i]) THEN name[i] ELSE "_"]

\* path.split('/').filter(Boolean)
RECURSIVE segments(_, _)
segments(path, run) ==
    IF path = <<>> THEN (IF run = <<>> THEN <<>> ELSE <<run>>)
    ELSE IF Head(path) = "/"
    THEN (IF run = <<>> THEN <<>> ELSE <<run>>) \o segments(Tail(path), <<>>)
    ELSE segments(Tail(path), Append(run, Head(path)))

\* the name of a cache file: the characters before .json and, in the file of
\* a symbol, the path that the 16 hexadecimal digits after them are the
\* SHA-256 digest of (two paths are taken never to share the digits)
File(name, hashed) == [name |-> name, hashed |-> hashed]

\* join(docsDir, `${sanitizeSymbolPath(path)}.json`)
sanitizeSymbolPath(path) ==
    LET parts == segments(path, <<>>)
        lastSegment == IF parts = <<>> THEN <<"s", "y", "m", "b", "o", "l">>
                       ELSE parts[Len(parts)]
        prefix == slice(sanitizeFrameworkName(lastSegment), 32)
    IN  File(prefix, path)

getCachePath(frameworkName) == File(sanitizeFrameworkName(frameworkName), <<>>)

technologiesCachePath == File(technologies, <<>>)

FileNames ==
    {getCachePath(n) : n \in FrameworkNames}
        \cup {sanitizeSymbolPath(p) : p \in SymbolPaths}
        \cup {technologiesCachePath}

NoResult == [threw |-> FALSE, error |-> "", value |-> {}]

\* the error that reading and parsing a file ends with, if any; failure is
\* the code of the error fs.readFile rejects with when the file exists
readError(fs, file, failure) ==
    IF fs[file] = {} THEN "ENOENT"
    ELSE IF failure # "" THEN failure
    ELSE IF \E text \in fs[file] : text.syntax # "json" THEN "SyntaxError"
    ELSE ""

returnsUndefinedOnlyWhenMissing(error) == error = "ENOENT"

\* the errors for which the catch block of loadFramework and loadSymbol
\* returns undefined
returnsUndefined(error) == error \in {"ENOENT", "SyntaxError"}

\* readFile, JSON.parse, schema.safeParse
load(fs, file, failure, passes(_), known) ==
    LET error == readError(fs, file, failure)
        parsed == (CHOOSE text \in fs[file] : TRUE).value
    IN  IF error # ""
        THEN IF returnsUndefined(error) THEN NoResult
             ELSE [NoResult EXCEPT !.threw = TRUE, !.error = error]
        ELSE IF ~passes(parsed) THEN NoResult
        ELSE [NoResult EXCEPT !.value = {safeParse(parsed, known)}]

loadFramework(fs, frameworkName, failure) ==
    load(fs, getCachePath(frameworkName), failure, FrameworkDataSchema, FrameworkDataKeys)

loadSymbol(fs, path, failure) ==
    load(fs, sanitizeSymbolPath(path), failure, SymbolDataSchema, SymbolDataKeys)

\* Object.values(value)[0]
firstValue(value) == value.fields[value.keys[1]]

loadTechnologies(fs, failure) ==
    LET error == readError(fs, technologiesCachePath, failure)
        parsed == (CHOOSE text \in fs[technologiesCachePath] : TRUE).value
        refs == IF parsed.fields["references"].type \in {"null", "undefined"}
                THEN JObject(<<>>, <<>>)
                ELSE parsed.fields["references"]
    IN  IF error = "ENOENT" THEN NoResult
        ELSE IF error # "" THEN [NoResult EXCEPT !.threw = TRUE, !.error = error]
        ELSE IF ~isObject(parsed) THEN NoResult
        ELSE IF in("references", parsed) /\ hasKeys(refs)
        THEN [NoResult EXCEPT !.value = {refs}]
        ELSE IF /\ hasKeys(parsed)
                /\ isObject(firstValue(parsed))
                /\ \/ in("identifier", firstValue(parsed))
                   \/ in("title", firstValue(parsed))
        THEN [NoResult EXCEPT !.value = {parsed}]
        ELSE NoResult

\* fs.writeFile(file, JSON.stringify(data, null, 2)); failure is the code of
\* the error writeFile rejects with, if it does
save(fs, file, data, failure) ==
    IF failure # ""
    THEN [fs |-> fs, threw |-> TRUE, error |-> failure]
    ELSE [fs |-> [fs EXCEPT ![file] = {JsonText(JSON_stringify(data))}],
          threw |-> FALSE, error |-> ""]

saveFramework(fs, frameworkName, data, failure) ==
    save(fs, getCachePath(frameworkName), data, failure)

saveSymbol(fs, path, data, failure) == save(fs, sanitizeSymbolPath(path), data, failure)

saveTechnologies(fs, data, failure) == save(fs, technologiesCachePath, data, failure)

\* documents: FrameworkData and SymbolData as the API sends them
Metadata(title) == JObject(<<"title">>, [title |-> JString(title)])

\* a topic section whose optional anchor is present and undefined
TopicSection ==
    JObject(<<"anchor", "identifiers", "title">>,
            [anchor |-> JUndefined,
             identifiers |-> JArray(<<JString("doc://ml")>>),
             title |-> JString("Models")])

\* schemaVersion is a property no schema names
ValidFrameworkData ==
    { JObject(<<"metadata">>, [metadata |-> Metadata("Core ML")]),
      JObject(<<"metadata", "topicSections", "schemaVersion">>,
              [metadata |-> Metadata("Core ML"),
               topicSections |-> JArray(<<TopicSection>>),
               schemaVersion |-> JNumber("1")]) }

ValidSymbolData ==
    { JObject(<<"metadata", "primaryContentSections", "schemaVersion">>,
              [metadata |-> Metadata("ML"),
               primaryContentSections |->
                    JArray(<<JObject(<<"kind">>, [kind |-> JString("declarations")])>>),
               schemaVersion |-> JNumber("1")]) }

Technology(title) ==
    JObject(<<"identifier", "title", "url">>,
            [identifier |-> JString("doc://ml"), title |-> JString(title),
             url |-> JString("/documentation/coreml")])

\* Record<string, Technology>
TechnologyRecords == { JObject(<<"doc://ml">>, [k \in {"doc://ml"} |-> Technology("Core ML")]) }

\* JSON that matches neither document schema
InvalidDocuments ==
    { JObject(<<"metadata">>, [metadata |-> JObject(<<"title">>, [title |-> JNumber("1")])]) }

\* JSON that is not a technology list in either format
InvalidTechnologies ==
    { JObject(<<"references">>, [references |-> JObject(<<>>, <<>>)]),
      JObject(<<"references">>, [references |-> JString("data")]) }

\* what is written into a cache file from outside the program
CorruptTexts(file) ==
    {Malformed} \cup {JsonText(v) : v \in IF file = technologiesCachePath
                                           THEN InvalidTechnologies
                                           ELSE IF file.hashed = <<>>
                                           THEN InvalidDocuments
                                           ELSE {}}

\* who saved: a framework name, a symbol path, or the technology list
Saver(kind, name) == [kind |-> kind, name |-> name]

Savers ==
    {Saver("framework", n) : n \in FrameworkNames}
        \cup {Saver("symbol", p) : p \in SymbolPaths}
        \cup {Saver("technologies", <<>>)}

FileOf(saver) ==
    IF saver.kind = "framework" THEN getCachePath(saver.name)
    ELSE IF saver.kind = "symbol" THEN sanitizeSymbolPath(saver.name)
    ELSE technologiesCachePath

\* vitest's toEqual: properties that are undefined do not count
deepEqual(a, b) == JSON_stringify(a) = JSON_stringify(b)

NoFileOp == [op |-> "none", saver |-> Saver("technologies", <<>>), result |-> NoResult]

FilesIdle ==
    /\ docsDir = [f \in FileNames |-> {}]
    /\ fileOp = NoFileOp
    /\ savedUnder = [s \in Savers |-> {}]
    /\ lastSaver = [f \in FileNames |-> {}]

(***************************************************************************)
(* AppleDevDocsClient (apple-client.ts): the FileCache in front of the     *)
(* HttpClient.                                                             *)
(***************************************************************************)
\* how many client calls are made
NumCalls == 2

Calls == 1..NumCalls

\* the documents asked for: a framework, a symbol and the technology list;
\* the URL of a document, a key of the response cache, is its place here
Documents ==
    << Saver("framework", Core_ML),
       Saver("symbol", <<"C", "o", "r", "e", "M", "L", "/", "M", "L">>),
       Saver("technologies", <<>>) >>

\* `${config.http.baseUrl}/${path}`
urlOf(document) == CHOOSE url \in DOMAIN Documents : Documents[url] = document

\* the document a method of the client is called for
ClientOps ==
    [getFramework |-> Documents[1], refreshFramework |-> Documents[1],
     getSymbol |-> Documents[2], refreshTechnologies |-> Documents[3]]

\* isTechnology(value)
isTechnology(value) ==
    /\ value.type \in {"object", "array"}
    /\ required(value, "identifier", isString)
    /\ required(value, "title", isString)
    /\ required(value, "url", isString)

\* parseTechnologiesResponse(response)
parseTechnologiesResponse(response) ==
    IF response.type # "object" THEN JObject(<<>>, <<>>)
    ELSE LET hasValidReferences ==
                /\ in("references", response)
                /\ response.fields["references"].type = "object"
             refs == IF hasValidReferences THEN response.fields["references"] ELSE response
             kept == SelectSeq(refs.keys, LAMBDA k : isTechnology(refs.fields[k]))
         IN  JObject(kept, [k \in {kept[i] : i \in DOMAIN kept} |-> refs.fields[k]])

\* what the API answers for a document
ResponsesFor(document) ==
    IF document.kind = "framework" THEN ValidFrameworkData
    ELSE IF document.kind = "symbol" THEN ValidSymbolData
    ELSE {JObject(<<"references">>, [references |-> r]) : r \in TechnologyRecords}

\* a response as validateResponse looks at it
Response(data) ==
    [type |-> data.type,
     keys |-> {data.keys[i] : i \in DOMAIN data.keys},
     error |-> IF in("error", data) THEN data.fields["error"].text ELSE "",
     errors |-> <<>>,
     payload |-> ""]

\* a call not made.  data is what getDocumentation resolved with, saveFailed
\* whether the writeFile of the save rejected
NoCall ==
    [pc |-> "idle", op |-> "", document |-> Documents[1], data |-> {}, result |-> {},
     error |-> "", saveFailed |-> FALSE]

ClientIdle == clientCall = [c \in Calls |-> NoCall]

\* the load at the head of getFramework and getSymbol
clientLoad(fs, document) ==
    IF document.kind = "framework" THEN loadFramework(fs, document.name, "")
    ELSE loadSymbol(fs, document.name, "")

\* the save that follows getDocumentation; the technology list is saved as
\* parsed, and only when it is not empty
clientSave(fs, document, data, failure) ==
    IF document.kind = "framework" THEN saveFramework(fs, document.name, data, failure)
    ELSE IF document.kind = "symbol" THEN saveSymbol(fs, document.name, data, failure)
    ELSE IF hasKeys(parseTechnologiesResponse(data))
    THEN saveTechnologies(fs, parseTechnologiesResponse(data), failure)
    ELSE [fs |-> fs, threw |-> FALSE, error |-> ""]

\* what the method returns after the save
clientResult(document, data) ==
    IF document.kind = "technologies" THEN parseTechnologiesResponse(data) ELSE data

(***************************************************************************)
(* resolveSymbol (server/services/symbol-resolver.ts).  A path is a        *)
(* sequence of pieces: NSView is <<"NS", "View">>, documentation/SwiftUI/  *)
(* View is <<"documentation/", "SwiftUI", "/", "View">>.                   *)
(***************************************************************************)

\* SYMBOL_PREFIX_MAPPINGS, in the order of Object.entries
SYMBOL_PREFIX_MAPPINGS ==
    << [prefix |-> "MPS", frameworks |-> <<"MetalPerformanceShaders", "MetalPerformanceShadersGraph">>],
       [prefix |-> "MTL", frameworks |-> <<"Metal">>],
       [prefix |-> "CG", frameworks |-> <<"CoreGraphics">>],
       [prefix |-> "CA", frameworks |-> <<"CoreAnimation">>],
       [prefix |-> "CI", frameworks |-> <<"CoreImage">>],
       [prefix |-> "AV", frameworks |-> <<"AVFoundation">>],
       [prefix |-> "NS", frameworks |-> <<"Foundation", "AppKit">>],
       [prefix |-> "UI", frameworks |-> <<"UIKit">>],
       [prefix |-> "SK", frameworks |-> <<"SpriteKit", "StoreKit">>],
       [prefix |-> "SCN", frameworks |-> <<"SceneKit">>],
       [prefix |-> "CL", frameworks |-> <<"CoreLocation">>],
       [prefix |-> "CM", frameworks |-> <<"CoreMedia", "CoreMotion">>],
       [prefix |-> "CN", frameworks |-> <<"Contacts">>],
       [prefix |-> "PH", frameworks |-> <<"Photos">>],
       [prefix |-> "WK", frameworks |-> <<"WebKit", "WatchKit">>] >>

\* getFrameworkPrefixesForSymbol(symbolPath): the frameworks of the first prefix the path starts with
getFrameworkPrefixesForSymbol(symbolPath) ==
    LET matching == {i \in DOMAIN SYMBOL_PREFIX_MAPPINGS :
                        startsWith(symbolPath, <<SYMBOL_PREFIX_MAPPINGS[i].prefix>>)}
    IN  IF matching = {} THEN <<>>
        ELSE SYMBOL_PREFIX_MAPPINGS[CHOOSE i \in matching : \A j \in matching : i <= j].frameworks

\* Set.prototype.add, the Set kept in insertion order
add(set, value) == IF value \in Range(set) THEN set ELSE Append(set, value)

RECURSIVE addAll(_, _)
\* for (const fw of values) set.add(fw)
addAll(set, values) ==
    IF values = <<>> THEN set ELSE addAll(add(set, Head(values)), Tail(values))

\* a mutation of frameworksToTry: options.additionalFrameworks is left out
frameworksToTryWithoutOptions(path, frameworkName, options) ==
    add(addAll(<<>>, getFrameworkPrefixesForSymbol(path)), frameworkName)

\* frameworksToTry, then frameworkList = [...frameworksToTry]
frameworksToTry(path, frameworkName, options) ==
    LET prefixed == addAll(<<>>, getFrameworkPrefixesForSymbol(path))
        active == add(prefixed, frameworkName)
    IN  IF options.additionalFrameworks = {} THEN active
        ELSE addAll(active, CHOOSE list \in options.additionalFrameworks : TRUE)

\* `documentation/${fw}/${path}`
candidatePath(fw, path) == <<"documentation/", fw, "/">> \o path

RECURSIVE join(_, _)
\* Array.prototype.join
join(array, separator) ==
    IF array = <<>> THEN <<>>
    ELSE IF Len(array) = 1 THEN <<array[1]>>
    ELSE <<array[1], separator>> \o join(Tail(array), separator)

\* the McpError of resolveSymbol
notFoundError(path, frameworkList) ==
    [code |-> "InvalidRequest",
     message |-> <<"Failed to load documentation for \"">> \o path
                 \o <<"\" in frameworks: ">> \o join(frameworkList, ", ")]

\* found = results.find(r => r !== undefined), then `if (found)`
foundResult(results) ==
    LET defined == {i \in DOMAIN results : results[i] # {}}
    IN  IF defined = {} THEN {}
        ELSE results[CHOOSE i \in defined : \A j \in defined : i <= j]

\* the SymbolData the client returns for a path
SymbolAt(path) == [identifier |-> path]

\* config.http.maxConcurrent
MaxConcurrent == 2

ResolvePaths ==
    { <<"NS", "View">>, <<"View">>, <<"documentation/", "SwiftUI", "/", "View">> }

ResolveFrameworkNames == {"SwiftUI", "AppKit"}

ResolveOptions ==
    { [additionalFrameworks |-> {}],
      [additionalFrameworks |-> {<<"UIKit", "SwiftUI">>}] }

NotResolving ==
    [pc |-> "idle", path |-> <<>>, frameworkName |-> "", options |-> [additionalFrameworks |-> {}],
     frameworkList |-> <<>>, tasks |-> <<>>, results |-> <<>>, calls |-> {},
     result |-> {}, error |-> {}]

ResolveIdle == resolving = NotResolving

(***************************************************************************)
(* scoreEntry and collectMatches (server/handlers/search/scoring.ts).      *)
(* Strings are sequences of characters; an optional field is a set of at   *)
(* most one value.                                                         *)
(***************************************************************************)

\* Array.prototype.includes
contains(array, value) == \E i \in DOMAIN array : array[i] = value

\* [...termLower].filter(char => tokenLower.includes(char)).length
commonChars(termLower, tokenLower) ==
    Cardinality({i \in DOMAIN termLower : includes(tokenLower, <<termLower[i]>>)})

\* the fuzzy test of one token: commonChars / termLower.length > 0.7
fuzzyMatch(tokenLower, termLower) ==
    /\ Len(tokenLower) > 2
    /\ Len(termLower) > 2
    /\ 10 * commonChars(termLower, tokenLower) > 7 * Len(termLower)

\* a mutation of termScore: the fuzzy loop goes on after the first token that qualifies
termScoreEveryToken(entry, term) ==
    LET termLower == lowerCase(term)
    IN  IF contains(entry.tokens, term) THEN 5
        ELSE IF \E i \in DOMAIN entry.tokens : lowerCase(entry.tokens[i]) = termLower THEN 4
        ELSE IF \E i \in DOMAIN entry.tokens : includes(lowerCase(entry.tokens[i]), termLower) THEN 2
        ELSE Cardinality({i \in DOMAIN entry.tokens : fuzzyMatch(lowerCase(entry.tokens[i]), termLower)})

\* what one term adds to the score of scoreEntry
termScore(entry, term) ==
    LET termLower == lowerCase(term)
    IN  IF contains(entry.tokens, term) THEN 5
        ELSE IF \E i \in DOMAIN entry.tokens : lowerCase(entry.tokens[i]) = termLower THEN 4
        ELSE IF \E i \in DOMAIN entry.tokens : includes(lowerCase(entry.tokens[i]), termLower) THEN 2
        ELSE IF \E i \in DOMAIN entry.tokens : fuzzyMatch(lowerCase(entry.tokens[i]), termLower) THEN 1
        ELSE 0

RECURSIVE scoreEntry(_, _)
\* scoreEntry(entry, terms)
scoreEntry(entry, terms) ==
    IF terms = <<>> THEN 0
    ELSE termScore(entry, Head(terms)) + scoreEntry(entry, Tail(terms))

RECURSIVE splitWhitespace(_, _, _)
\* text.split(/\s+/).filter(Boolean)
splitWhitespace(text, i, run) ==
    LET flush == IF run = <<>> THEN <<>> ELSE <<run>>
    IN  IF i > Len(text) THEN flush
        ELSE IF text[i] = " " THEN flush \o splitWhitespace(text, i + 1, <<>>)
        ELSE splitWhitespace(text, i + 1, Append(run, text[i]))

\* terms = query.toLowerCase().split(/\s+/).filter(Boolean)
termsOf(query) == splitWhitespace(lowerCase(query), 1, <<>>)

\* the place of a letter in the alphabet, its case aside
letter(c) ==
    LET lower == lowerCase(<<c>>)[1]
    IN  CHOOSE k \in DOMAIN LowerCaseLetters : LowerCaseLetters[k] = lower

RECURSIVE compareLetters(_, _)
\* the order of two words of letters, case aside: negative, zero or positive
compareLetters(a, b) ==
    IF a = <<>> /\ b = <<>> THEN 0
    ELSE IF a = <<>> THEN -1
    ELSE IF b = <<>> THEN 1
    ELSE IF letter(Head(a)) # letter(Head(b)) THEN letter(Head(a)) - letter(Head(b))
    ELSE compareLetters(Tail(a), Tail(b))

RECURSIVE compareCase(_, _)
\* of two words equal case aside, the one with the first lower-case letter is first
compareCase(a, b) ==
    IF a = <<>> THEN 0
    ELSE IF Head(a) = Head(b) THEN compareCase(Tail(a), Tail(b))
    ELSE IF IsUpperCase(Head(a)) THEN 1 ELSE -1

\* String.prototype.localeCompare on words of letters
localeCompare(a, b) ==
    IF compareLetters(a, b) # 0 THEN compareLetters(a, b) ELSE compareCase(a, b)

\* ref.title ?? ''
titleOf(ref) == IF ref.title = {} THEN <<>> ELSE CHOOSE title \in ref.title : TRUE

\* (a, b) => b.score - a.score || (a.ref.title ?? '').localeCompare(b.ref.title ?? '')
compareRanked(a, b) ==
    IF b.score # a.score THEN b.score - a.score
    ELSE localeCompare(titleOf(a.ref), titleOf(b.ref))

RECURSIVE sortRanked(_)
\* ranked.sort(compareRanked): a stable sort
sortRanked(ranked) ==
    IF ranked = <<>> THEN <<>>
    ELSE LET rest == sortRanked(Tail(ranked))
             k == Cardinality({i \in DOMAIN rest : compareRanked(rest[i], Head(ranked)) < 0})
         IN  SubSeq(rest, 1, k) \o <<Head(ranked)>> \o SubSeq(rest, k + 1, Len(rest))

\* the filters of collectMatches: whether the entry is kept
passesFilters(entry, filters) ==
    /\ \A symbolType \in filters.symbolType :
           symbolType = <<>> \/ {lowerCase(kind) : kind \in entry.ref.kind} = {lowerCase(symbolType)}
    /\ \A platform \in filters.platform :
           \/ platform = <<>>
           \/ \E platforms \in entry.ref.platforms :
                  \E i \in DOMAIN platforms :
                      \E name \in platforms[i].name : includes(lowerCase(name), lowerCase(platform))

\* collectMatches(entries, query, maxResults, filters)
collectMatches(entries, query, maxResults, filters) ==
    LET terms == termsOf(query)
        all == [i \in DOMAIN entries |->
                    [id |-> entries[i].id, ref |-> entries[i].ref,
                     score |-> scoreEntry(entries[i], terms)]]
        Pushed(r) ==
            /\ r.score > 0
            /\ \E i \in DOMAIN entries : entries[i].id = r.id /\ passesFilters(entries[i], filters)
    IN  slice(sortRanked(SelectSeq(all, Pushed)), maxResults)

\* createEntry(id, tokens, refOverrides) of the tests
createEntry(id, tokens, title, kind) ==
    [id |-> id, tokens |-> tokens,
     ref |-> [title |-> {title}, kind |-> {kind},
              platforms |-> {<< [name |-> {<<"i", "O", "S">>}] >>}]]

IndexEntries ==
    << createEntry("1", << <<"N", "a", "v", "V", "i", "e", "w">> >>,
                   <<"N", "a", "v", "V", "i", "e", "w">>, <<"s", "t", "r", "u", "c", "t">>),
       createEntry("2", << <<"v", "i", "e", "w">>, <<"V", "i", "e", "w">> >>,
                   <<"V", "i", "e", "w">>, <<"p", "r", "o", "t", "o", "c", "o", "l">>),
       createEntry("3", << <<"M", "y", "V", "i", "e", "w">>, <<"V", "i", "e", "w">> >>,
                   <<"M", "y", "V", "i", "e", "w">>, <<"s", "t", "r", "u", "c", "t">>),
       createEntry("4", << <<"B", "u", "t", "t", "o", "n">> >>,
                   <<"B", "u", "t", "t", "o", "n">>, <<"s", "t", "r", "u", "c", "t">>),
       createEntry("5", << <<"w", "i", "v", "e", "s">>, <<"W", "e", "i", "v">> >>,
                   <<"W", "i", "v", "e", "s">>, <<"S", "t", "r", "u", "c", "t">>) >>

\* how many entries a framework index holds at most
MaxEntries == 3

\* the framework indexes: the sequences of distinct entries, at most MaxEntries long
EntryLists ==
    LET Picks == UNION {[1..n -> DOMAIN IndexEntries] : n \in 0..MaxEntries}
    IN  { [i \in DOMAIN pick |-> IndexEntries[pick[i]]] :
            pick \in {p \in Picks : \A i, j \in DOMAIN p : i # j => p[i] # p[j]} }

RankQueries ==
    { <<"n", "a", "v", " ", "v", "i", "e", "w">>,
      <<"N", "a", "v", " ", " ", "V", "i", "e", "w">>,
      <<"v", "i", "e", "w">> }

RankMaxResults == {1, 10}

RankFilters ==
    { [symbolType |-> {}, platform |-> {}],
      [symbolType |-> {<<"s", "t", "r", "u", "c", "t">>}, platform |-> {<<"i", "o", "s">>}] }

NoRanking ==
    [pc |-> "idle", entries |-> <<>>, query |-> <<>>, maxResults |-> 0,
     filters |-> [symbolType |-> {}, platform |-> {}], ranked |-> <<>>]

ScoreIdle == ranking = NoRanking

(***************************************************************************)
(* loadActiveFrameworkData, ensureFrameworkIndex and expandSymbolReferences*)
(* (server/services/framework-loader.ts).  A framework index is the set of *)
(* the reference identifiers it holds.                                     *)
(***************************************************************************)
NumLoaders == 2

Loaders == 1..NumLoaders

\* activeTechnology.identifier.split('/').at(-1)
frameworkNameOf(technology) == technology.identifier[Len(technology.identifier)]

\* what client.getFramework(frameworkName) resolves to
FrameworkOf(frameworkName) ==
    CASE frameworkName = "swiftui" -> "swiftuiFramework"
      [] frameworkName = "uikit" -> "uikitFramework"

\* framework.references, as the identifiers of the references
ReferencesOf(data) ==
    CASE data = "swiftuiFramework" -> {"doc://View"}
      [] data = "uikitFramework" -> {"doc://UIView"}

\* what a client.getSymbol of expandSymbolReferences can end as: a rejection,
\* symbol data without references, symbol data with references
FetchOutcomes == {"rejected", "noReferences", "references"}

\* data.references of the symbol data fetched for an identifier, if defined
SymbolReferences(identifier, outcome) ==
    IF outcome = "references" THEN {{identifier}} ELSE {}

\* the identifier lists of the requests
IdentifierLists == { <<"doc://test">>, <<"doc://test", "doc://other">> }

\* loadActiveFrameworkData from the end of await client.getFramework on
loadAfterFetch(s, data) == clearFrameworkIndex(setActiveFrameworkData(s, {data}))

\* ensureFrameworkIndex once the framework data is there: the index and the state after
ensureFrameworkIndex(s, framework) ==
    IF s.frameworkIndex # {}
    THEN [index |-> CHOOSE existing \in s.frameworkIndex : TRUE, state |-> s]
    ELSE [index |-> ReferencesOf(framework),
          state |-> setFrameworkIndex(s, {ReferencesOf(framework)})]

\* identifiers.filter(identifier => !state.hasExpandedIdentifier(identifier))
identifiersToProcess(s, identifiers) ==
    LET NotExpanded(identifier) == ~hasExpandedIdentifier(s, identifier)
    IN  SelectSeq(identifiers, NotExpanded)

RECURSIVE processResults(_, _, _, _)
\* the loop over results of expandSymbolReferences from result i on:
\* processReferences adds to the index object, which session state holds as
\* long as it was not replaced, and throws on undefined references
processResults(s, index, results, i) ==
    IF i > Len(results) THEN [state |-> s, index |-> index, threw |-> FALSE]
    ELSE IF results[i] = {} THEN processResults(s, index, results, i + 1)
    ELSE LET result == CHOOSE r \in results[i] : TRUE
         IN  IF result.references = {}
             THEN [state |-> s, index |-> index, threw |-> TRUE]
             ELSE LET added == index \cup UNION result.references
                      shared == IF s.frameworkIndex = {index}
                                THEN setFrameworkIndex(s, {added}) ELSE s
                  IN  processResults(markIdentifierExpanded(shared, result.identifier),
                                     added, results, i + 1)

NotLoading ==
    [op |-> "none", pc |-> "idle", technology |-> {}, frameworkName |-> "",
     identifiers |-> <<>>, before |-> {}, after |-> {}, framework |-> {}, index |-> {},
     toProcess |-> <<>>, tasks |-> <<>>, results |-> <<>>, outcomes |-> <<>>]

LoaderIdle == loader = [h \in Loaders |-> NotLoading]

(***************************************************************************)
(* AsyncMutex and KeyedMutex (server/utils/mutex.ts).  A queued resolver   *)
(* is named by the caller whose acquire pushed it.  acquire and release    *)
(* return the new mutex and the caller, if any, that the call granted the  *)
(* lock to.                                                                *)
(***************************************************************************)
NumCallers == 3

Callers == 1..NumCallers

Keys == {Identifier({SwiftUI}), Identifier({UIKit})}

\* new AsyncMutex()
NewAsyncMutex == [locked |-> FALSE, queue |-> <<>>]

\* a mutation of acquire: a caller that has to wait is put in front of the waiters
AsyncMutex_acquireInFront(mutex, caller) ==
    IF ~mutex.locked
    THEN [mutex |-> [mutex EXCEPT !.locked = TRUE], granted |-> {caller}]
    ELSE [mutex |-> [mutex EXCEPT !.queue = <<caller>> \o @], granted |-> {}]

\* AsyncMutex.acquire(): the mutex after the call and the caller whose promise is resolved
AsyncMutex_acquire(mutex, caller) ==
    IF ~mutex.locked
    THEN [mutex |-> [mutex EXCEPT !.locked = TRUE], granted |-> {caller}]
    ELSE [mutex |-> [mutex EXCEPT !.queue = Append(@, caller)], granted |-> {}]

AsyncMutex_releaseUnlocks(mutex) ==
    IF mutex.queue # <<>>
    THEN [mutex |-> [mutex EXCEPT !.queue = Tail(@), !.locked = FALSE],
          granted |-> {Head(mutex.queue)}]
    ELSE [mutex |-> [mutex EXCEPT !.locked = FALSE], granted |-> {}]

AsyncMutex_release(mutex) ==
    IF mutex.queue # <<>>
    THEN [mutex |-> [mutex EXCEPT !.queue = Tail(@)], granted |-> {Head(mutex.queue)}]
    ELSE [mutex |-> [mutex EXCEPT !.locked = FALSE], granted |-> {}]

\* KeyedMutex.acquire(key): the map after the call and the caller granted
KeyedMutex_acquire(map, key, caller) ==
    LET created == IF key \in DOMAIN map THEN map ELSE map @@ (key :> NewAsyncMutex)
        got == AsyncMutex_acquire(created[key], caller)
    IN  [mutexes |-> [created EXCEPT ![key] = got.mutex], granted |-> got.granted]

\* a mutation of the release function: the lock is kept and nobody is granted
KeyedMutex_releaseKeepsLock(map, key) ==
    [mutexes |-> map, granted |-> {}]

\* the release function that acquire(key) resolved to
KeyedMutex_release(map, key) ==
    LET got == AsyncMutex_release(map[key])
    IN  [mutexes |-> [map EXCEPT ![key] = got.mutex], granted |-> got.granted]

\* new KeyedMutex(), nobody holding
MutexIdle ==
    /\ mutexes = <<>>
    /\ holding = [c \in Callers |-> {}]
    /\ handedTo = <<>>

Grant(h, callers, key) ==
    [c \in DOMAIN h |-> IF c \in callers THEN h[c] \cup {key} ELSE h[c]]

Queued(caller, key) ==
    /\ key \in DOMAIN mutexes
    /\ \E i \in 1..Len(mutexes[key].queue) : mutexes[key].queue[i] = caller

(***************************************************************************)
(* The choose_technology and search_symbols handlers.  An invocation is    *)
(* the mutex caller of the same number.  NoInvocation holds the locals of  *)
(* the handlers and, as history, the epoch at which the invocation read    *)
(* the active technology (epochStart) and fixed its index (epochLocked),   *)
(* whether it took the lock (viaLock) and the index it constructed.        *)
(***************************************************************************)
NoArgs == [name |-> {}, identifier |-> {}]

NoInvocation ==
    [tool |-> "none", pc |-> "idle", args |-> NoArgs,
     activeTechnology |-> {}, techLocalIndex |-> {},
     indexBuildFailed |-> FALSE, fallback |-> FALSE,
     epochStart |-> 0, epochLocked |-> 0, viaLock |-> FALSE, constructed |-> {},
     searchedIn |-> {}, resultsEmpty |-> {}, symbolCount |-> {}]

HandlersIdle ==
    /\ inv = [h \in Callers |-> NoInvocation]
    /\ epoch = 0

\* config.indexing.minSymbolCountThreshold as configured for the model
\* (APPLE_DOC_MIN_SYMBOL_COUNT)
MinSymbolCountThreshold == 2

\* Object.values(await client.getTechnologies())
TechnologyList == <<SwiftUI, UIKit, Tutorials>>

\* fuzzyScore(a, b); 4 stands for Number.POSITIVE_INFINITY
fuzzyScore(a, b) ==
    IF a = <<>> \/ b = <<>> THEN 4
    ELSE LET lowerA == toLowerCase(a)
             lowerB == toLowerCase(b)
         IN  IF lowerA = lowerB THEN 0
             ELSE IF startsWith(lowerA, lowerB) \/ startsWith(lowerB, lowerA) THEN 1
             ELSE IF includes(lowerA, lowerB) \/ includes(lowerB, lowerA) THEN 2
             ELSE 3

\* Array.prototype.find over the technology list
FirstWhere(P(_)) ==
    LET found == {i \in 1..Len(TechnologyList) : P(TechnologyList[i])}
    IN  IF found = {} THEN {}
        ELSE {TechnologyList[CHOOSE i \in found : \A j \in found : i <= j]}

\* choose_technology: the technology the arguments resolve to, if any
chosenTechnology(args) ==
    LET byIdentifier ==
            IF args.identifier = {} THEN {}
            ELSE FirstWhere(LAMBDA tech :
                    \E identifier \in args.identifier :
                        toLowerCase(tech.identifier) = toLowerCase(identifier))
        byName ==
            IF byIdentifier # {} \/ args.name = {} THEN byIdentifier
            ELSE FirstWhere(LAMBDA tech :
                    \E name \in args.name : toLowerCase(tech.title) = toLowerCase(name))
        best == CHOOSE n \in 0..4 :
                    /\ \E i \in 1..Len(TechnologyList), name \in args.name :
                            fuzzyScore(TechnologyList[i].title, name) = n
                    /\ \A i \in 1..Len(TechnologyList), name \in args.name :
                            fuzzyScore(TechnologyList[i].title, name) >= n
    IN  IF byName # {} \/ args.name = {} THEN byName
        ELSE IF best < 3
        THEN FirstWhere(LAMBDA tech :
                \E name \in args.name : fuzzyScore(tech.title, name) = best)
        ELSE {}

\* ensureFramework(technology) returns
isFramework(technology) == technology.kind = "symbol" /\ technology.role = "collection"

\* a mutation of searchAndReturn: the fallback is taken whenever the index is small
searchAndReturnSmallIndexFallsBack(call, index, hits) ==
    LET empty == ~hits \/ getSymbolCount(index) = 0
        noted == [call EXCEPT !.searchedIn = {index.state}, !.resultsEmpty = {empty},
                                 !.symbolCount = {getSymbolCount(index)}]
    IN  IF getSymbolCount(index) < MinSymbolCountThreshold
        THEN [noted EXCEPT !.pc = "awaitFallback", !.fallback = TRUE]
        ELSE [noted EXCEPT !.pc = "done"]

\* search_symbols from the local index search on: fall back to
\* client.searchFramework or return.  `hits` tells whether the query matches
\* an entry of the index.
\* History: searchedIn (the state of the index at the search), resultsEmpty,
\* symbolCount.
searchAndReturn(call, index, hits) ==
    LET empty == ~hits \/ getSymbolCount(index) = 0
        noted == [call EXCEPT !.searchedIn = {index.state}, !.resultsEmpty = {empty},
                                 !.symbolCount = {getSymbolCount(index)}]
    IN  IF empty /\ getSymbolCount(index) < MinSymbolCountThreshold
        THEN [noted EXCEPT !.pc = "awaitFallback", !.fallback = TRUE]
        ELSE [noted EXCEPT !.pc = "done"]

\* search_symbols once techLocalIndex is set: build the index if it is empty,
\* then search.  Gives the invocation and the index objects.
buildThenSearch(call, objects, hits) ==
    LET ref == CHOOSE r \in call.techLocalIndex : TRUE
    IN  IF getSymbolCount(objects[ref]) = 0
        THEN IF buildSkips(objects[ref])
             THEN [call |-> [call EXCEPT !.pc = "awaitSkippedBuild"], indexes |-> objects]
             ELSE [call |-> [call EXCEPT !.pc = "awaitBuild"],
                   indexes |-> [objects EXCEPT ![ref] = buildStart(@)]]
        ELSE [call |-> searchAndReturn(call, objects[ref], hits), indexes |-> objects]

\* the check-then-create section without the second look at the state
createWithoutRecheck(s, objects, technology) ==
    [state |-> setLocalSymbolIndex(s, Len(objects) + 1),
     indexes |-> Append(objects, createLocalSymbolIndex(technology)),
     techLocalIndex |-> {Len(objects) + 1},
     constructed |-> {Len(objects) + 1}]

\* search_symbols, the section under the lock: look at the state again, and
\* create and install an index if there is still none
checkThenCreate(s, objects, technology) ==
    IF getLocalSymbolIndex(s) # {}
    THEN [state |-> s, indexes |-> objects,
          techLocalIndex |-> getLocalSymbolIndex(s), constructed |-> {}]
    ELSE [state |-> setLocalSymbolIndex(s, Len(objects) + 1),
          indexes |-> Append(objects, createLocalSymbolIndex(technology)),
          techLocalIndex |-> {Len(objects) + 1},
          constructed |-> {Len(objects) + 1}]

\* every document file of the directory processed, each read giving its content
RECURSIVE ProcessAll(_, _)
ProcessAll(index, files) ==
    IF files = <<>> THEN index
    ELSE ProcessAll(processFile(index, CacheDirectory[Head(files)], "content").index,
                    Tail(files))

(***************************************************************************)
(* The KeyedMutex driven by callers that have at most one acquire per key  *)
(* outstanding and call a granted release function once.                   *)
(***************************************************************************)
MutexInit ==
    /\ MutexIdle
    /\ IndexIdle
    /\ HandlersIdle
    /\ SearchIdle
    /\ CacheIdle
    /\ HttpIdle
    /\ FilesIdle
    /\ ClientIdle
    /\ ResolveIdle
    /\ ScoreIdle
    /\ LoaderIdle
    /\ state = NewServerState
    /\ lastOp = [op |-> "new", technology |-> {}, pre |-> NewServerState]
    /\ indexes = <<>>

Acquire ==
    \E caller \in Callers, key \in Keys :
        /\ key \notin holding[caller]
        /\ ~Queued(caller, key)
        /\ LET got == KeyedMutex_acquire(mutexes, key, caller)
           IN  /\ mutexes' = got.mutexes
               /\ holding' = Grant(holding, got.granted, key)
               /\ UNCHANGED handedTo
        /\ UNCHANGED <<stateVars, indexVars, handlerVars, searchVars, cacheVars, httpVars, fileVars, clientVars, resolveVars, scoreVars, loaderVars>>

Release ==
    \E caller \in Callers, key \in Keys :
        /\ key \in holding[caller]
        /\ LET got == KeyedMutex_release(mutexes, key)
           IN  /\ mutexes' = got.mutexes
               /\ holding' = Grant([holding EXCEPT ![caller] = @ \ {key}], got.granted, key)
               /\ handedTo' = (key :> got.granted) @@ handedTo
        /\ UNCHANGED <<stateVars, indexVars, handlerVars, searchVars, cacheVars, httpVars, fileVars, clientVars, resolveVars, scoreVars, loaderVars>>

MutexNext == Acquire \/ Release

SpecMutex == MutexInit /\ [][MutexNext]_vars

Holders(key) == {c \in Callers : key \in holding[c]}

\* C5: for every key at most one caller holds the lock (was granted a release
\* function it has not called yet), under every interleaving of acquire and
\* release calls in which a granted release function is called once.
C5_MutualExclusion ==
    \A key \in Keys : Cardinality(Holders(key)) <= 1

\* A lock was handed over: one caller holds the key after another released it
\* while a third still waits for it.
C5_Witness ==
    \E key \in DOMAIN mutexes :
        /\ Holders(key) # {}
        /\ mutexes[key].queue # <<>>
        /\ \A c \in Holders(key) : c # 1

\* the release function granted to caller for key is called
Releases(caller, key) ==
    /\ Release
    /\ key \in holding[caller]
    /\ key \notin holding'[caller]

\* every holder calls its release function: a granted release function is
\* not left uncalled for ever
SpecMutexFair ==
    /\ MutexInit
    /\ [][MutexNext]_vars
    /\ \A caller \in Callers, key \in Keys : WF_vars(Releases(caller, key))

\* the place of a waiter among those waiting for the key, 0 if it does not wait
Place(caller, key) ==
    IF Queued(caller, key)
    THEN CHOOSE i \in 1..Len(mutexes[key].queue) : mutexes[key].queue[i] = caller
    ELSE 0

\* a call of acquire puts the caller behind every waiter there is, and a
\* waiter is granted the lock only when nobody waits in front of it
GrantedInOrder ==
    \A key \in Keys, c1 \in Callers, c2 \in Callers :
        /\ (Queued(c1, key) /\ ~Queued(c2, key) /\ Queued(c2, key)') =>
                (Queued(c1, key)' /\ Place(c1, key)' < Place(c2, key)')
        /\ (Queued(c1, key) /\ Queued(c2, key) /\ Place(c1, key) < Place(c2, key)) =>
                /\ key \notin holding'[c2]
                /\ Queued(c1, key)' => Place(c1, key)' < Place(c2, key)'

\* C37: when every holder calls its release function once, every pending
\* acquire is eventually granted, and the waiters of a key are granted the
\* lock in the order of their acquire calls.
C37_EveryWaiterGrantedInOrder ==
    /\ \A caller \in Callers, key \in Keys :
            Queued(caller, key) ~> (key \in holding[caller])
    /\ [][GrantedInOrder]_vars

\* the caller that acquired last of three was handed the lock by a release
\* while the other two have called acquire again and wait behind each other
C37_Witness ==
    \E key \in DOMAIN handedTo :
        /\ handedTo[key] = {3}
        /\ Holders(key) = {3}
        /\ mutexes[key].queue = <<2, 1>>

(***************************************************************************)
(* The ServerState API driven by an arbitrary caller.                      *)
(***************************************************************************)
Op(name, technology) == [op |-> name, technology |-> technology, pre |-> state]

StateInit ==
    /\ state = NewServerState
    /\ lastOp = [op |-> "new", technology |-> {}, pre |-> NewServerState]
    /\ indexes = <<>>
    /\ MutexIdle
    /\ IndexIdle
    /\ HandlersIdle
    /\ SearchIdle
    /\ CacheIdle
    /\ HttpIdle
    /\ FilesIdle
    /\ ClientIdle
    /\ ResolveIdle
    /\ ScoreIdle
    /\ LoaderIdle

SetActiveTechnology ==
    \E technology \in {{}} \cup {{t} : t \in Technologies} :
        /\ state' = setActiveTechnology(state, technology)
        /\ lastOp' = Op("setActiveTechnology", technology)
        /\ UNCHANGED <<indexes, mutexVars, indexVars, handlerVars, searchVars, cacheVars, httpVars, fileVars, clientVars, resolveVars, scoreVars, loaderVars>>

SetActiveFrameworkData ==
    \E data \in {{}} \cup {{d} : d \in FrameworkDatas} :
        /\ state' = setActiveFrameworkData(state, data)
        /\ lastOp' = Op("setActiveFrameworkData", {})
        /\ UNCHANGED <<indexes, mutexVars, indexVars, handlerVars, searchVars, cacheVars, httpVars, fileVars, clientVars, resolveVars, scoreVars, loaderVars>>

ClearActiveFrameworkData ==
    /\ state' = clearActiveFrameworkData(state)
    /\ lastOp' = Op("clearActiveFrameworkData", {})
    /\ UNCHANGED <<indexes, mutexVars, indexVars, handlerVars, searchVars, cacheVars, httpVars, fileVars, clientVars, resolveVars, scoreVars, loaderVars>>

SetFrameworkIndex ==
    \E index \in {{}} \cup {{i} : i \in FrameworkIndexes} :
        /\ state' = setFrameworkIndex(state, index)
        /\ lastOp' = Op("setFrameworkIndex", {})
        /\ UNCHANGED <<indexes, mutexVars, indexVars, handlerVars, searchVars, cacheVars, httpVars, fileVars, clientVars, resolveVars, scoreVars, loaderVars>>

ClearFrameworkIndex ==
    /\ state' = clearFrameworkIndex(state)
    /\ lastOp' = Op("clearFrameworkIndex", {})
    /\ UNCHANGED <<indexes, mutexVars, indexVars, handlerVars, searchVars, cacheVars, httpVars, fileVars, clientVars, resolveVars, scoreVars, loaderVars>>

MarkIdentifierExpanded ==
    \E identifier \in ExpandableIdentifiers :
        /\ state' = markIdentifierExpanded(state, identifier)
        /\ lastOp' = Op("markIdentifierExpanded", {})
        /\ UNCHANGED <<indexes, mutexVars, indexVars, handlerVars, searchVars, cacheVars, httpVars, fileVars, clientVars, resolveVars, scoreVars, loaderVars>>

SetLastDiscovery ==
    \E lastDiscovery \in {{}} \cup {{d} : d \in Discoveries} :
        /\ state' = setLastDiscovery(state, lastDiscovery)
        /\ lastOp' = Op("setLastDiscovery", {})
        /\ UNCHANGED <<indexes, mutexVars, indexVars, handlerVars, searchVars, cacheVars, httpVars, fileVars, clientVars, resolveVars, scoreVars, loaderVars>>

\* const index = createLocalSymbolIndex(client, technology); state.setLocalSymbolIndex(index)
SetLocalSymbolIndex ==
    \/ /\ Len(indexes) < MaxIndexes
       /\ \E technology \in Technologies :
            /\ indexes' = Append(indexes, createLocalSymbolIndex(technology))
            /\ state' = setLocalSymbolIndex(state, Len(indexes) + 1)
       /\ lastOp' = Op("setLocalSymbolIndex", {})
       /\ UNCHANGED <<mutexVars, indexVars, handlerVars, searchVars, cacheVars, httpVars, fileVars, clientVars, resolveVars, scoreVars, loaderVars>>
    \/ /\ \E index \in 1..Len(indexes) :
            state' = setLocalSymbolIndex(state, index)
       /\ lastOp' = Op("setLocalSymbolIndex", {})
       /\ UNCHANGED <<indexes, mutexVars, indexVars, handlerVars, searchVars, cacheVars, httpVars, fileVars, clientVars, resolveVars, scoreVars, loaderVars>>

ClearLocalSymbolIndex ==
    /\ state' = clearLocalSymbolIndex(state)
    /\ lastOp' = Op("clearLocalSymbolIndex", {})
    /\ UNCHANGED <<indexes, mutexVars, indexVars, handlerVars, searchVars, cacheVars, httpVars, fileVars, clientVars, resolveVars, scoreVars, loaderVars>>

ResetForTechnologyChange ==
    /\ state' = resetForTechnologyChange(state)
    /\ lastOp' = Op("resetForTechnologyChange", {})
    /\ UNCHANGED <<indexes, mutexVars, indexVars, handlerVars, searchVars, cacheVars, httpVars, fileVars, clientVars, resolveVars, scoreVars, loaderVars>>

StateNext ==
    \/ SetActiveTechnology
    \/ SetActiveFrameworkData
    \/ ClearActiveFrameworkData
    \/ SetFrameworkIndex
    \/ ClearFrameworkIndex
    \/ MarkIdentifierExpanded
    \/ SetLastDiscovery
    \/ SetLocalSymbolIndex
    \/ ClearLocalSymbolIndex
    \/ ResetForTechnologyChange

SpecState == StateInit /\ [][StateNext]_vars

\* The part of the session state that depends on the active technology.
Dependent(s) ==
    <<s.activeFrameworkData, s.frameworkIndex, s.expandedIdentifiers, s.localSymbolIndex>>

\* The last operation was setActiveTechnology with another identifier than the active one.
SelectedDifferent ==
    /\ lastOp.op = "setActiveTechnology"
    /\ Identifier(lastOp.technology) # Identifier(lastOp.pre.activeTechnology)

\* The last operation was setActiveTechnology with the identifier that was active.
SelectedSame ==
    /\ lastOp.op = "setActiveTechnology"
    /\ Identifier(lastOp.technology) = Identifier(lastOp.pre.activeTechnology)

\* C1: after setActiveTechnology with a technology of a different identifier
\* (undefined after a defined one included), the active framework data, the
\* framework index and the local symbol index are undefined and no identifier
\* is marked expanded, whatever operations came before.
C1_ChangeInvalidates ==
    SelectedDifferent =>
        /\ state.activeFrameworkData = {}
        /\ state.frameworkIndex = {}
        /\ getLocalSymbolIndex(state) = {}
        /\ state.expandedIdentifiers = {}
        /\ \A identifier \in ExpandableIdentifiers : ~hasExpandedIdentifier(state, identifier)

C1_Witness ==
    /\ SelectedDifferent
    /\ lastOp.pre.activeTechnology # {}
    /\ lastOp.pre.activeFrameworkData # {}
    /\ lastOp.pre.frameworkIndex # {}
    /\ lastOp.pre.localSymbolIndex # {}
    /\ lastOp.pre.expandedIdentifiers # {}

\* C2: setActiveTechnology with a technology whose identifier is the active
\* one leaves the framework data, the framework index, the expanded
\* identifiers and the local symbol index as they were.
C2_SameKeeps ==
    SelectedSame => Dependent(state) = Dependent(lastOp.pre)

C2_Witness ==
    /\ SelectedSame
    /\ lastOp.technology # lastOp.pre.activeTechnology
    /\ lastOp.pre.activeFrameworkData # {}
    /\ lastOp.pre.frameworkIndex # {}
    /\ lastOp.pre.localSymbolIndex # {}
    /\ lastOp.pre.expandedIdentifiers # {}

(***************************************************************************)
(* One LocalSymbolIndex under concurrent buildIndexFromCache calls and     *)
(* clear().  A call runs from one await to the next in one step: access,   *)
(* readdir, each file read of a batch, and the Promise.all of the batch.   *)
(***************************************************************************)
ReadOutcomes == {"content", "error", "timeout"}

IndexInit ==
    /\ \E technologyIdentifier \in {{}, extractTechnologyPath(SwiftUI.identifier)} :
        /\ localIndex = NewLocalSymbolIndex(technologyIdentifier)
        /\ indexOp = [op |-> "new", b |-> 0, pre |-> NewLocalSymbolIndex(technologyIdentifier)]
    /\ dir \in {"missing", "listable", "unlistable"}
    /\ build = [b \in Builds |-> NoBuild]
    /\ state = NewServerState
    /\ lastOp = [op |-> "new", technology |-> {}, pre |-> NewServerState]
    /\ indexes = <<>>
    /\ MutexIdle
    /\ HandlersIdle
    /\ SearchIdle
    /\ CacheIdle
    /\ HttpIdle
    /\ FilesIdle
    /\ ClientIdle
    /\ ResolveIdle
    /\ ScoreIdle
    /\ LoaderIdle

IndexOp(name, b) == [op |-> name, b |-> b, pre |-> localIndex]

\* the head of the batch loop: launch the next batch, or finish the build
LoopHead(call) ==
    IF call.index < Len(call.files)
    THEN [call EXCEPT !.pc = "batch", !.pending = Batch(call.files, call.index),
                      !.succeeded = {}]
    ELSE [call EXCEPT !.pc = "returned"]

\* buildIndexFromCache() is called
BuildCall ==
    \E b \in Builds :
        /\ build[b].pc \in {"idle", "skipped", "returned", "threw"}
        /\ IF buildSkips(localIndex)
           THEN /\ build' = [build EXCEPT ![b] =
                        [NoBuild EXCEPT !.pc = "skipped", !.afterClear = (indexOp.op = "clear")]]
                /\ indexOp' = IndexOp("skip", b)
                /\ UNCHANGED localIndex
           ELSE /\ build' = [build EXCEPT ![b] =
                        [NoBuild EXCEPT !.pc = "access", !.afterClear = (indexOp.op = "clear")]]
                /\ indexOp' = IndexOp("start", b)
                /\ localIndex' = buildStart(localIndex)
        /\ UNCHANGED <<dir, stateVars, mutexVars, handlerVars, searchVars, cacheVars, httpVars, fileVars, clientVars, resolveVars, scoreVars, loaderVars>>

\* await access(cacheDir) ends
BuildAccess ==
    \E b \in Builds :
        /\ build[b].pc = "access"
        /\ IF dir = "missing"
           THEN /\ localIndex' = accessFailed(localIndex)
                /\ build' = [build EXCEPT ![b].pc = "returned"]
                /\ indexOp' = IndexOp("accessFailed", b)
           ELSE /\ build' = [build EXCEPT ![b].pc = "readdir"]
                /\ indexOp' = IndexOp("access", b)
                /\ UNCHANGED localIndex
        /\ UNCHANGED <<dir, stateVars, mutexVars, handlerVars, searchVars, cacheVars, httpVars, fileVars, clientVars, resolveVars, scoreVars, loaderVars>>

\* await readdir(cacheDir) ends
BuildReaddir ==
    \E b \in Builds :
        /\ build[b].pc = "readdir"
        /\ IF dir = "unlistable"
           THEN /\ localIndex' = buildFailed(localIndex)
                /\ build' = [build EXCEPT ![b].pc = "threw"]
                /\ indexOp' = IndexOp("failed", b)
           ELSE LET call == LoopHead([build[b] EXCEPT !.files = JsonFiles(NumFiles),
                                                      !.enumerated = TRUE])
                IN  /\ build' = [build EXCEPT ![b] = call]
                    /\ IF call.pc = "returned"
                       THEN /\ localIndex' = buildComplete(localIndex, call.errorCount)
                            /\ indexOp' = IndexOp("complete", b)
                       ELSE /\ indexOp' = IndexOp("readdir", b)
                            /\ UNCHANGED localIndex
        /\ UNCHANGED <<dir, stateVars, mutexVars, handlerVars, searchVars, cacheVars, httpVars, fileVars, clientVars, resolveVars, scoreVars, loaderVars>>

\* one processFile of the batch ends
BuildReadFile ==
    \E b \in Builds :
        /\ build[b].pc = "batch"
        /\ \E i \in build[b].pending, read \in ReadOutcomes :
            LET file == build[b].files[i]
                done == processFile(localIndex, CacheDirectory[file], read)
                valid == read = "content" /\ ValidDocument(CacheDirectory[file])
            IN  /\ localIndex' = done.index
                /\ build' = [build EXCEPT ![b].pending = @ \ {i},
                                          ![b].succeeded = IF done.success THEN @ \cup {i} ELSE @,
                                          ![b].read = @ \cup {file},
                                          ![b].indexed = IF valid THEN @ \cup {file} ELSE @]
                /\ indexOp' = IndexOp(IF valid THEN "read" ELSE "readFailed", b)
        /\ UNCHANGED <<dir, stateVars, mutexVars, handlerVars, searchVars, cacheVars, httpVars, fileVars, clientVars, resolveVars, scoreVars, loaderVars>>

\* await Promise.all(batch) ends: count the results, go to the next batch
BuildBatchDone ==
    \E b \in Builds :
        /\ build[b].pc = "batch"
        /\ build[b].pending = {}
        /\ LET size == Cardinality(Batch(build[b].files, build[b].index))
               ok == Cardinality(build[b].succeeded)
               call == LoopHead([build[b] EXCEPT !.processedCount = @ + ok,
                                                 !.errorCount = @ + (size - ok),
                                                 !.index = @ + BatchSize])
           IN  /\ build' = [build EXCEPT ![b] = call]
               /\ IF call.pc = "returned"
                  THEN /\ localIndex' = buildComplete(localIndex, call.errorCount)
                       /\ indexOp' = IndexOp("complete", b)
                  ELSE /\ indexOp' = IndexOp("batch", b)
                       /\ UNCHANGED localIndex
        /\ UNCHANGED <<dir, stateVars, mutexVars, handlerVars, searchVars, cacheVars, httpVars, fileVars, clientVars, resolveVars, scoreVars, loaderVars>>

InFlight(b) == build[b].pc \in {"access", "readdir", "batch"}

\* clear() is called
Clear ==
    /\ localIndex' = clear(localIndex)
    /\ build' = [b \in Builds |-> IF InFlight(b) THEN [build[b] EXCEPT !.cleared = TRUE]
                                  ELSE build[b]]
    /\ indexOp' = IndexOp("clear", 0)
    /\ UNCHANGED <<dir, stateVars, mutexVars, handlerVars, searchVars, cacheVars, httpVars, fileVars, clientVars, resolveVars, scoreVars, loaderVars>>

IndexNext ==
    \/ BuildCall
    \/ BuildAccess
    \/ BuildReaddir
    \/ BuildReadFile
    \/ BuildBatchDone
    \/ Clear

SpecIndex == IndexInit /\ [][IndexNext]_vars

Entries(index) == {index.symbols[i] : i \in 1..Len(index.symbols)}

\* C28: after buildIndexFromCache on an index constructed with a technology
\* filter, the path of every entry of the symbol table, document or
\* reference, contains the filter, letter case aside.
C28_EntriesWithinTechnology ==
    localIndex.state = "ready" =>
        \A entry \in Entries(localIndex) :
            \A technologyPath \in localIndex.technologyIdentifier :
                includes(toLowerCase(entry.path), toLowerCase(technologyPath))

\* a build of an index with a technology filter has completed and the table
\* holds entries of documents and of references
C28_Witness ==
    /\ localIndex.state = "ready"
    /\ localIndex.technologyIdentifier # {}
    /\ \E entry \in Entries(localIndex) : entry.filePath = "view.json" /\ entry.id = entry.path
    /\ \E entry \in Entries(localIndex) : entry.filePath = "view.json" /\ entry.id # entry.path
    /\ \E b \in Builds : build[b].pc = "returned"

\* C29: every entry of the symbol table has its path as id when the path is
\* not empty, and its title otherwise.
C29_IdIsPathOrTitle ==
    \A entry \in Entries(localIndex) :
        entry.id = IF entry.path # <<>> THEN entry.path ELSE entry.title

\* the table holds an entry made of a document and an entry made of a reference
C29_Witness ==
    /\ \E entry \in Entries(localIndex) : entry.kind = <<"protocol">>
    /\ \E entry \in Entries(localIndex) : entry.kind = <<"symbol">>

\* the buildIndexFromCache calls whose pass is in progress
PassesInProgress == {b \in Builds : InFlight(b)}

\* C35: at most one build pass of the index is in progress at any time, under
\* every interleaving of buildIndexFromCache and clear calls.
C35_OneBuildPass ==
    Cardinality(PassesInProgress) <= 1

\* clear() was called during a pass, the next buildIndexFromCache call was
\* not skipped, and both passes are reading files
C35_Witness ==
    \E b1, b2 \in Builds :
        /\ b1 # b2
        /\ build[b1].cleared /\ build[b1].pc = "batch"
        /\ build[b2].afterClear /\ build[b2].pc = "batch"
        /\ localIndex.state = "building"

\* C6: the state of a LocalSymbolIndex changes only from uninitialized to
\* building (build called), from building to ready (build completed or cache
\* directory unreachable), from building to failed (I/O error), or to
\* uninitialized by clear().
C6_Transitions ==
    [][localIndex'.state # localIndex.state =>
        \/ /\ localIndex.state = "uninitialized"
           /\ localIndex'.state = "building"
           /\ indexOp'.op = "start"
        \/ /\ localIndex.state = "building"
           /\ localIndex'.state = "ready"
           /\ indexOp'.op \in {"complete", "accessFailed"}
        \/ /\ localIndex.state = "building"
           /\ localIndex'.state = "failed"
           /\ indexOp'.op = "failed"
        \/ /\ localIndex'.state = "uninitialized"
           /\ indexOp'.op = "clear"]_vars

\* C7: a buildIndexFromCache call made while the state is ready or building
\* returns at once: it enumerates nothing, reads no file and leaves the state
\* and the symbol table as they were.
C7_BuildWhileBuiltIsNoOp ==
    /\ (indexOp.op \in {"start", "skip"} /\ indexOp.pre.state \in {"ready", "building"}) =>
            /\ localIndex = indexOp.pre
            /\ build[indexOp.b].pc = "skipped"
    /\ \A b \in Builds :
            build[b].pc = "skipped" => ~build[b].enumerated /\ build[b].read = {}

C7_Witness ==
    /\ indexOp.op = "skip"
    /\ indexOp.pre.state = "building"
    /\ getSymbolCount(localIndex) > 0

DocumentId(file) ==
    IF file.data.url # <<>> THEN file.data.url
    ELSE IF file.data.title # <<>> THEN file.data.title ELSE <<"Unknown">>

\* C9: once the directory was enumerated the build ends in ready however
\* many files fail to read, time out, do not parse or match no schema; a
\* failing file adds no entry, every document file is still processed, and
\* every valid file of every batch is indexed.
C9_FileErrorsIsolated ==
    /\ indexOp.op = "readFailed" => localIndex = indexOp.pre
    /\ \A e \in Entries(localIndex) :
            \E f \in JsonFileSet : CacheDirectory[f].name = e.filePath
                                   /\ ValidDocument(CacheDirectory[f])
    /\ \A b \in Builds :
            build[b].enumerated =>
                /\ build[b].pc # "threw"
                /\ (indexOp.op = "complete" /\ indexOp.b = b) =>
                        /\ localIndex.state = "ready"
                        /\ build[b].read = JsonFileSet
                        /\ build[b].processedCount = Cardinality(build[b].indexed)
                        /\ build[b].processedCount + build[b].errorCount
                                = Cardinality(JsonFileSet)
                        /\ ~build[b].cleared =>
                                \A f \in build[b].indexed :
                                    \/ SkippedByTechnology(localIndex.technologyIdentifier,
                                                           CacheDirectory[f].data.url)
                                    \/ \E e \in Entries(localIndex) :
                                            e.id = DocumentId(CacheDirectory[f])

\* a build completes with failed files in the first batch and a file of the
\* second batch indexed
C9_Witness ==
    \E b \in Builds :
        /\ indexOp.op = "complete"
        /\ indexOp.b = b
        /\ ~build[b].cleared
        /\ build[b].errorCount >= 2
        /\ build[b].processedCount >= 1
        /\ \E e \in Entries(localIndex) : e.filePath = "swiftui.json"

\* C10: with a cache directory that cannot be accessed, buildIndexFromCache
\* never throws, ends in ready, never in failed, and the symbol count stays 0.
C10_MissingDirectory ==
    dir = "missing" =>
        /\ \A b \in Builds : build[b].pc # "threw" /\ ~build[b].enumerated
        /\ localIndex.state # "failed"
        /\ indexOp.op = "accessFailed" => localIndex.state = "ready"
        /\ getSymbolCount(localIndex) = 0

C10_Witness ==
    /\ dir = "missing"
    /\ indexOp.op = "accessFailed"
    /\ localIndex.state = "ready"
    /\ getSymbolCount(localIndex) = 0

(***************************************************************************)
(* The session under concurrent tool invocations.  Each invocation runs    *)
(* from one await to the next in one step.                                 *)
(***************************************************************************)
ChooseArgs ==
    { [name |-> {}, identifier |-> {UIKit.identifier}],
      [name |-> {}, identifier |-> {<<"doc://com.apple.documentation/", "documentation/", "SwiftUI">>}],
      [name |-> {<<"Kit">>}, identifier |-> {}],
      [name |-> {<<"Swift", "UI", " ", "Tutorials">>}, identifier |-> {}],
      [name |-> {<<"AppKit">>}, identifier |-> {}] }

\* a session in which nothing was chosen yet, or SwiftUI was
HandlersInit ==
    /\ state \in {NewServerState, setActiveTechnology(NewServerState, {SwiftUI})}
    /\ lastOp = [op |-> "new", technology |-> {}, pre |-> NewServerState]
    /\ indexes = <<>>
    /\ MutexIdle
    /\ localIndex = NewLocalSymbolIndex({})
    /\ dir \in {"missing", "listable", "unlistable"}
    /\ build = [b \in Builds |-> NoBuild]
    /\ indexOp = [op |-> "new", b |-> 0, pre |-> NewLocalSymbolIndex({})]
    /\ HandlersIdle
    /\ SearchIdle
    /\ CacheIdle
    /\ HttpIdle
    /\ FilesIdle
    /\ ClientIdle
    /\ ResolveIdle
    /\ ScoreIdle
    /\ LoaderIdle

LockKey(call) == CHOOSE key \in Identifier(call.activeTechnology) : TRUE

\* search_symbols is invoked: up to the first await
SearchCall ==
    \E h \in Callers, hits \in BOOLEAN :
        /\ inv[h].pc = "idle"
        /\ LET call == [inv[h] EXCEPT !.tool = "search_symbols",
                                      !.activeTechnology = state.activeTechnology,
                                      !.epochStart = epoch, !.epochLocked = epoch]
           IN  IF call.activeTechnology = {}
               THEN /\ inv' = [inv EXCEPT ![h] = [call EXCEPT !.pc = "done"]]
                    /\ UNCHANGED <<indexes, mutexVars>>
               ELSE IF getLocalSymbolIndex(state) # {}
               THEN LET next == buildThenSearch(
                                    [call EXCEPT !.techLocalIndex = getLocalSymbolIndex(state)],
                                    indexes, hits)
                    IN  /\ inv' = [inv EXCEPT ![h] = next.call]
                        /\ indexes' = next.indexes
                        /\ UNCHANGED mutexVars
               ELSE LET got == KeyedMutex_acquire(mutexes, LockKey(call), h)
                    IN  /\ mutexes' = got.mutexes
                        /\ holding' = Grant(holding, got.granted, LockKey(call))
                        /\ UNCHANGED handedTo
                        /\ inv' = [inv EXCEPT ![h] =
                                    [call EXCEPT !.pc = "awaitLock", !.viaLock = TRUE]]
                        /\ UNCHANGED indexes
        /\ UNCHANGED <<state, lastOp, epoch, indexVars, searchVars, cacheVars, httpVars, fileVars, clientVars, resolveVars, scoreVars, loaderVars>>

\* the lock is granted: the check-then-create section, release(), and on to the build
SearchLocked ==
    \E h \in Callers, hits \in BOOLEAN :
        /\ inv[h].pc = "awaitLock"
        /\ LockKey(inv[h]) \in holding[h]
        /\ LET key == LockKey(inv[h])
               technology == CHOOSE t \in inv[h].activeTechnology : TRUE
               section == checkThenCreate(state, indexes, technology)
               released == KeyedMutex_release(mutexes, key)
               next == buildThenSearch(
                            [inv[h] EXCEPT !.techLocalIndex = section.techLocalIndex,
                                           !.constructed = section.constructed,
                                           !.epochLocked = epoch],
                            section.indexes, hits)
           IN  /\ state' = section.state
               /\ mutexes' = released.mutexes
               /\ holding' = Grant([holding EXCEPT ![h] = @ \ {key}], released.granted, key)
               /\ handedTo' = (key :> released.granted) @@ handedTo
               /\ inv' = [inv EXCEPT ![h] = next.call]
               /\ indexes' = next.indexes
        /\ UNCHANGED <<lastOp, epoch, indexVars, searchVars, cacheVars, httpVars, fileVars, clientVars, resolveVars, scoreVars, loaderVars>>

\* the build pass an invocation started ends
SearchBuildEnds ==
    \E h \in Callers :
        /\ inv[h].pc = "awaitBuild"
        /\ LET ref == CHOOSE r \in inv[h].techLocalIndex : TRUE
               errorCount == Cardinality({f \in JsonFileSet : ~ValidDocument(CacheDirectory[f])})
           IN  CASE dir = "missing" ->
                        /\ indexes' = [indexes EXCEPT ![ref] = accessFailed(@)]
                        /\ inv' = [inv EXCEPT ![h].pc = "buildReturned"]
                 [] dir = "unlistable" ->
                        /\ indexes' = [indexes EXCEPT ![ref] = buildFailed(@)]
                        /\ inv' = [inv EXCEPT ![h].pc = "buildThrew"]
                 [] dir = "listable" ->
                        /\ indexes' = [indexes EXCEPT ![ref] =
                                buildComplete(ProcessAll(@, JsonFiles(NumFiles)), errorCount)]
                        /\ inv' = [inv EXCEPT ![h].pc = "buildReturned"]
        /\ UNCHANGED <<state, lastOp, epoch, mutexVars, indexVars, searchVars, cacheVars, httpVars, fileVars, clientVars, resolveVars, scoreVars, loaderVars>>

\* await buildIndexFromCache() is over: the catch, then the search
SearchResumes ==
    \E h \in Callers, hits \in BOOLEAN :
        /\ inv[h].pc \in {"awaitSkippedBuild", "buildReturned", "buildThrew"}
        /\ LET ref == CHOOSE r \in inv[h].techLocalIndex : TRUE
           IN  inv' = [inv EXCEPT ![h] =
                    searchAndReturn([inv[h] EXCEPT !.indexBuildFailed = (inv[h].pc = "buildThrew")],
                                    indexes[ref], hits)]
        /\ UNCHANGED <<stateVars, epoch, mutexVars, indexVars, searchVars, cacheVars, httpVars, fileVars, clientVars, resolveVars, scoreVars, loaderVars>>

\* await client.searchFramework() is over
SearchFallbackEnds ==
    \E h \in Callers :
        /\ inv[h].pc = "awaitFallback"
        /\ inv' = [inv EXCEPT ![h].pc = "done"]
        /\ UNCHANGED <<stateVars, epoch, mutexVars, indexVars, searchVars, cacheVars, httpVars, fileVars, clientVars, resolveVars, scoreVars, loaderVars>>

\* choose_technology is invoked: up to await client.getTechnologies()
ChooseCall ==
    \E h \in Callers, args \in ChooseArgs :
        /\ inv[h].pc = "idle"
        /\ inv' = [inv EXCEPT ![h] = [@ EXCEPT !.tool = "choose_technology",
                                               !.pc = "awaitTechnologies",
                                               !.args = args, !.epochStart = epoch]]
        /\ UNCHANGED <<stateVars, epoch, mutexVars, indexVars, searchVars, cacheVars, httpVars, fileVars, clientVars, resolveVars, scoreVars, loaderVars>>

\* a mutation of selectChosen: the technology is selected before ensureFramework looks at it
selectChosenBeforeEnsure(s, chosen) ==
    IF chosen = {} THEN [state |-> s, pc |-> "done"]
    ELSE [state |-> clearActiveFrameworkData(setActiveTechnology(s, chosen)),
          pc |-> IF \E t \in chosen : ~isFramework(t) THEN "threw" ELSE "awaitFramework"]

\* choose_technology from `if (!chosen)` to the await of client.getFramework:
\* the not-found response, ensureFramework, setActiveTechnology, clearActiveFrameworkData
selectChosen(s, chosen) ==
    IF chosen = {} THEN [state |-> s, pc |-> "done"]
    ELSE IF \E t \in chosen : ~isFramework(t) THEN [state |-> s, pc |-> "threw"]
    ELSE [state |-> clearActiveFrameworkData(setActiveTechnology(s, chosen)),
          pc |-> "awaitFramework"]

\* the technologies are there: resolve, ensureFramework, select
ChooseResolves ==
    \E h \in Callers :
        /\ inv[h].pc = "awaitTechnologies"
        /\ LET selected == selectChosen(state, chosenTechnology(inv[h].args))
           IN  /\ state' = selected.state
               /\ epoch' = IF Identifier(selected.state.activeTechnology) # Identifier(state.activeTechnology)
                            THEN epoch + 1 ELSE epoch
               /\ inv' = [inv EXCEPT ![h].pc = selected.pc]
        /\ UNCHANGED <<lastOp, indexes, mutexVars, indexVars, searchVars, cacheVars, httpVars, fileVars, clientVars, resolveVars, scoreVars, loaderVars>>

\* await client.getFramework() is over, with the framework or an error
ChooseOverview ==
    \E h \in Callers :
        /\ inv[h].pc = "awaitFramework"
        /\ inv' = [inv EXCEPT ![h].pc = "done"]
        /\ UNCHANGED <<stateVars, epoch, mutexVars, indexVars, searchVars, cacheVars, httpVars, fileVars, clientVars, resolveVars, scoreVars, loaderVars>>

HandlersNext ==
    \/ SearchCall
    \/ SearchLocked
    \/ SearchBuildEnds
    \/ SearchResumes
    \/ SearchFallbackEnds
    \/ ChooseCall
    \/ ChooseResolves
    \/ ChooseOverview

SpecHandlers == HandlersInit /\ [][HandlersNext]_vars

\* C3: the local symbol index held in session state was constructed for the
\* active technology, under every interleaving of search_symbols and
\* choose_technology.
C3_NoStaleIndex ==
    \A ref \in getLocalSymbolIndex(state) :
        \A technology \in state.activeTechnology :
            indexes[ref].technologyIdentifier = extractTechnologyPath(technology.identifier)

\* the search_symbols invocations that fixed their index with no change of
\* technology since they read the active one
Settled(h) ==
    /\ inv[h].tool = "search_symbols"
    /\ inv[h].techLocalIndex # {}
    /\ inv[h].epochStart = inv[h].epochLocked

\* C4: of the search_symbols invocations that run for one active technology
\* while the session holds no index, one constructs and installs the index
\* and every other one, looking again under the lock, uses that instance.
C4_OneIndexConstructed ==
    \A h1, h2 \in Callers :
        (h1 # h2 /\ Settled(h1) /\ Settled(h2) /\ inv[h1].epochLocked = inv[h2].epochLocked) =>
            /\ inv[h1].techLocalIndex = inv[h2].techLocalIndex
            /\ inv[h1].constructed = {} \/ inv[h2].constructed = {}

\* two invocations waited for the lock at once; the first built the index,
\* the second uses it
C4_Witness ==
    \E h1, h2 \in Callers :
        /\ h1 # h2
        /\ Settled(h1) /\ Settled(h2)
        /\ inv[h1].epochLocked = inv[h2].epochLocked
        /\ inv[h1].viaLock /\ inv[h2].viaLock
        /\ inv[h1].constructed # {}
        /\ inv[h2].constructed = {}
        /\ inv[h2].techLocalIndex = inv[h1].constructed

\* an invocation that is over: it returned a response or threw
Completed(h) == inv[h].pc \in {"done", "threw"}

\* C36: the index-creation lock is released on every way out of the
\* check-then-create section: an invocation that is past the section holds no
\* lock, a locked mutex has a holder that is still in front of the section, and
\* once every invocation that took the lock has left the section the lock of
\* each identifier is free with nobody queued, so a later acquire is granted.
C36_LockReleasedOnExit ==
    /\ \A h \in Callers : inv[h].pc # "awaitLock" => holding[h] = {}
    /\ \A key \in DOMAIN mutexes :
            /\ mutexes[key].locked =>
                    \E h \in Callers : inv[h].pc = "awaitLock" /\ key \in holding[h]
            /\ mutexes[key].queue # <<>> => mutexes[key].locked
            /\ (\A h \in Callers : inv[h].pc # "awaitLock") =>
                    KeyedMutex_acquire(mutexes, key, 1).granted = {1}

\* an invocation that went through the locked section is over, a second one
\* that had queued behind it was granted the lock and is over too
C36_Witness ==
    \E h1, h2 \in Callers :
        /\ h1 # h2
        /\ inv[h1].viaLock /\ Completed(h1)
        /\ inv[h2].viaLock /\ Completed(h2)
        /\ LockKey(inv[h1]) = LockKey(inv[h2])
        /\ ~mutexes[LockKey(inv[h1])].locked
        /\ \A h \in Callers : inv[h].pc # "awaitLock"

\* C34: whenever search_symbols runs search on the local index, the index is
\* not in state building: an invocation that finds the build of another in
\* progress waits for its end before it searches.
C34_NoSearchWhileBuilding ==
    \A h \in Callers : "building" \notin inv[h].searchedIn

\* an invocation found the build of another in progress and has searched
C34_Witness ==
    \E h1, h2 \in Callers :
        /\ h1 # h2
        /\ inv[h1].techLocalIndex = inv[h2].techLocalIndex
        /\ inv[h1].pc = "awaitBuild"
        /\ inv[h2].searchedIn # {}

\* C38: search_symbols calls the fallback client.searchFramework only when
\* the local search returned no result and the index holds fewer than
\* minSymbolCountThreshold entries; with a result there is no fallback.
C38_FallbackOnlyWhenEmptyAndSmall ==
    \A h \in Callers :
        /\ inv[h].fallback =>
               /\ inv[h].resultsEmpty = {TRUE}
               /\ \A count \in inv[h].symbolCount : count < MinSymbolCountThreshold
        /\ inv[h].resultsEmpty = {FALSE} => ~inv[h].fallback

\* one invocation fell back, one found results in a small index, one found
\* none in an index at the threshold
C38_Witness ==
    \E h1, h2 \in Callers :
        /\ inv[h1].fallback
        /\ inv[h1].symbolCount = {1}
        /\ ~inv[h2].fallback
        /\ inv[h2].resultsEmpty = {TRUE}
        /\ \E count \in inv[h2].symbolCount : count >= MinSymbolCountThreshold

\* a choose_technology invocation fails in this step: it answers that no
\* technology was found, or ensureFramework throws
ChooseFails(h) ==
    /\ inv[h].tool = "choose_technology"
    /\ inv[h].pc = "awaitTechnologies"
    /\ inv'[h].pc \in {"done", "threw"}

\* C27: a choose_technology invocation that fails (no technology resolved, or
\* the technology is not a framework collection) leaves the session state as
\* it was: active technology, framework data, framework index, local index.
C27_FailedChooseKeepsState ==
    [][\A h \in Callers :
          /\ ChooseFails(h) => (state' = state /\ indexes' = indexes)
          /\ (inv[h].pc = "idle" /\ inv'[h].tool = "choose_technology")
                 => (state' = state /\ indexes' = indexes)]_vars

\* a technology is active and an invocation asking for a technology that is
\* no framework collection has thrown
C27_Witness ==
    \E h \in Callers :
        /\ inv[h].tool = "choose_technology"
        /\ inv[h].pc = "threw"
        /\ \E t \in chosenTechnology(inv[h].args) : ~isFramework(t)
        /\ state.activeTechnology # {}

(***************************************************************************)
(* LocalSymbolIndex.search on the indexes a build can leave: the documents *)
(* of any part of the directory read so far, in the state the index has    *)
(* at that moment.                                                         *)
(***************************************************************************)
Queries == { <<"view">>, <<"Button">>, <<"a control">>, <<"grid">>, <<"ui*">>, <<"?iew">>, <<"*">> }

\* maxResults * 2 of search_symbols, and the limit of a direct call
MaxResultsValues == {1, 3, 40}

\* the files of the listing that are in `read`, in the order of the listing
FilesRead(read) ==
    LET InRead(f) == f \in read
    IN  SelectSeq(JsonFiles(NumFiles), InRead)

SearchInit ==
    /\ \E technologyIdentifier \in {{}, extractTechnologyPath(SwiftUI.identifier)},
          indexState \in {"uninitialized", "building", "ready", "failed"},
          read \in SUBSET JsonFileSet :
        /\ indexState = "failed" => read = {}
        /\ localIndex = [ProcessAll(NewLocalSymbolIndex(technologyIdentifier), FilesRead(read))
                            EXCEPT !.state = indexState]
    /\ dir = "listable"
    /\ build = [b \in Builds |-> NoBuild]
    /\ indexOp = [op |-> "new", b |-> 0, pre |-> NewLocalSymbolIndex({})]
    /\ searched = NoSearch
    /\ state = NewServerState
    /\ lastOp = [op |-> "new", technology |-> {}, pre |-> NewServerState]
    /\ indexes = <<>>
    /\ MutexIdle
    /\ inv = [h \in Callers |-> NoInvocation]
    /\ epoch = 0
    /\ CacheIdle
    /\ HttpIdle
    /\ FilesIdle
    /\ ClientIdle
    /\ ResolveIdle
    /\ ScoreIdle
    /\ LoaderIdle

\* search(query, maxResults) is called
Search ==
    \E query \in Queries, maxResults \in MaxResultsValues :
        LET done == search(localIndex, query, maxResults)
        IN  /\ localIndex' = done.index
            /\ searched' = [called |-> TRUE, query |-> query, maxResults |-> maxResults,
                            threw |-> done.threw, results |-> done.results,
                            pre |-> localIndex]
            /\ UNCHANGED <<dir, build, indexOp, stateVars, mutexVars, handlerVars, cacheVars, httpVars, fileVars, clientVars, resolveVars, scoreVars, loaderVars>>

SearchNext == Search

SpecSearch == SearchInit /\ [][SearchNext]_vars

\* C11: search may be called in any state of the index; it does not throw,
\* what it returns is made of entries that are in the table at that moment,
\* and it changes neither the state nor the table.
C11_SearchAnyState ==
    searched.called =>
        /\ ~searched.threw
        /\ localIndex = searched.pre
        /\ Range(searched.results) \subseteq Range(searched.pre.symbols)
        /\ \A i \in DOMAIN searched.pre.symbols :
                (/\ score(searched.pre.symbols[i], Text(searched.query)) > 0
                 /\ Len(searched.results) < searched.maxResults)
                    => searched.pre.symbols[i] \in Range(searched.results)

\* a search on an index that is building, some documents read, finds entries
C11_Witness ==
    /\ searched.called
    /\ searched.pre.state = "building"
    /\ searched.results # <<>>
    /\ Len(searched.results) < Len(searched.pre.symbols)

\* the position in the table of an entry
Position(symbols, entry) == CHOOSE i \in DOMAIN symbols : symbols[i] = entry

\* C12: search returns only entries of score above zero, by non-increasing
\* score, entries of equal score in the order of the table, and at most
\* maxResults of them.
C12_SearchRanking ==
    searched.called =>
        LET results == searched.results
            symbols == searched.pre.symbols
            ScoreOf(entry) == score(entry, Text(searched.query))
        IN  /\ Len(results) <= searched.maxResults
            /\ \A i \in DOMAIN results : ScoreOf(results[i]) > 0
            /\ \A i, j \in DOMAIN results :
                    i < j =>
                        /\ ScoreOf(results[i]) >= ScoreOf(results[j])
                        /\ ScoreOf(results[i]) = ScoreOf(results[j]) =>
                                Position(symbols, results[i]) < Position(symbols, results[j])

\* entries of different scores returned in another order than the table's, two
\* of equal score among them, the list cut at maxResults
C12_Witness ==
    /\ searched.called
    /\ Len(searched.results) = searched.maxResults
    /\ Len(searched.results) < Len(searched.pre.symbols)
    /\ \E i, j \in DOMAIN searched.results :
            /\ i < j
            /\ Position(searched.pre.symbols, searched.results[i])
                    > Position(searched.pre.symbols, searched.results[j])
    /\ \E i, j \in DOMAIN searched.results :
            /\ i < j
            /\ score(searched.results[i], Text(searched.query))
                    = score(searched.results[j], Text(searched.query))

(***************************************************************************)
(* One MemoryCache under any sequence of get, set and clear, the clock     *)
(* advancing between the calls.                                            *)
(***************************************************************************)
CacheInit ==
    /\ \E maxSize \in 0..MaxCacheSize :
        /\ cache = NewMemoryCache(CacheTimeout, maxSize)
        /\ cacheOp = [op |-> "new", key |-> 0, pre |-> NewMemoryCache(CacheTimeout, maxSize),
                      returned |-> {}, lru |-> {}]
    /\ now = 0
    /\ lastSet = [k \in CacheKeys |-> NeverSet]
    /\ recency = <<>>
    /\ state = NewServerState
    /\ lastOp = [op |-> "new", technology |-> {}, pre |-> NewServerState]
    /\ indexes = <<>>
    /\ MutexIdle
    /\ IndexIdle
    /\ HandlersIdle
    /\ SearchIdle
    /\ HttpIdle
    /\ FilesIdle
    /\ ClientIdle
    /\ ResolveIdle
    /\ ScoreIdle
    /\ LoaderIdle

KeysOf(entries) == {entries[i].key : i \in DOMAIN entries}

\* the keys that a call took out of the cache
Removed(pre, post) == KeysOf(pre.entries) \ KeysOf(post.entries)

Without(keys, removed) ==
    LET Kept(k) == k \notin removed
    IN  SelectSeq(keys, Kept)

LeastRecentlyUsed == IF recency = <<>> THEN {} ELSE {Head(recency)}

\* cache.get(key)
CacheGet ==
    \E key \in CacheKeys :
        LET done == MemoryCache_get(cache, key, now)
        IN  /\ cache' = done.cache
            /\ cacheOp' = [op |-> "get", key |-> key, pre |-> cache, returned |-> done.returned,
                          lru |-> LeastRecentlyUsed]
            /\ recency' = IF done.returned # {} THEN Append(Without(recency, {key}), key)
                          ELSE Without(recency, {key})
            /\ lastSet' = IF done.returned # {} /\ lastSet[key].hits < MaxHits
                          THEN [lastSet EXCEPT ![key].hits = @ + 1]
                          ELSE lastSet
            /\ UNCHANGED <<now, stateVars, mutexVars, indexVars, handlerVars, searchVars, httpVars, fileVars, clientVars, resolveVars, scoreVars, loaderVars>>

\* cache.set(key, data)
CacheSet ==
    \E key \in CacheKeys, data \in CacheData :
        LET done == MemoryCache_set(cache, key, data, now)
        IN  /\ cache' = done
            /\ cacheOp' = [op |-> "set", key |-> key, pre |-> cache, returned |-> {},
                          lru |-> LeastRecentlyUsed]
            /\ lastSet' = [k \in CacheKeys |->
                    IF k = key THEN [set |-> TRUE, time |-> now, data |-> data, dropped |-> FALSE, hits |-> 0]
                    ELSE IF k \in Removed(cache, done) THEN [lastSet[k] EXCEPT !.dropped = TRUE, !.hits = 0]
                    ELSE lastSet[k]]
            /\ recency' = Append(Without(recency, Removed(cache, done) \cup {key}), key)
            /\ UNCHANGED <<now, stateVars, mutexVars, indexVars, handlerVars, searchVars, httpVars, fileVars, clientVars, resolveVars, scoreVars, loaderVars>>

\* cache.clear()
CacheClear ==
    /\ cache' = MemoryCache_clear(cache)
    /\ cacheOp' = [op |-> "clear", key |-> 0, pre |-> cache, returned |-> {},
                  lru |-> LeastRecentlyUsed]
    /\ lastSet' = [k \in CacheKeys |->
            IF k \in KeysOf(cache.entries) THEN [lastSet[k] EXCEPT !.dropped = TRUE, !.hits = 0]
            ELSE lastSet[k]]
    /\ recency' = <<>>
    /\ UNCHANGED <<now, stateVars, mutexVars, indexVars, handlerVars, searchVars, httpVars, fileVars, clientVars, resolveVars, scoreVars, loaderVars>>

\* time passes
Tick ==
    /\ now < MaxTime
    /\ now' = now + 1
    /\ cacheOp' = [cacheOp EXCEPT !.op = "tick"]
    /\ UNCHANGED <<cache, lastSet, recency, stateVars, mutexVars, indexVars, handlerVars,
                   searchVars, httpVars, fileVars, clientVars, resolveVars, scoreVars, loaderVars>>

CacheNext ==
    \/ CacheGet
    \/ CacheSet
    \/ CacheClear
    \/ Tick

SpecCache == CacheInit /\ [][CacheNext]_vars

\* C13: the size of a MemoryCache never exceeds its maxSize, and a set of a
\* key that is present leaves the size as it was.
C13_SizeBound ==
    /\ MemoryCache_size(cache) <= cache.maxSize
    /\ (cacheOp.op = "set" /\ has(cacheOp.pre.entries, cacheOp.key)) =>
            MemoryCache_size(cache) = MemoryCache_size(cacheOp.pre)

\* a set of a new key into a cache that is at capacity and holds an entry
SetAtCapacity ==
    /\ cacheOp.op = "set"
    /\ ~has(cacheOp.pre.entries, cacheOp.key)
    /\ MemoryCache_size(cacheOp.pre) >= cacheOp.pre.maxSize
    /\ cacheOp.pre.entries # <<>>

C40_HitKeepsTimestamp ==
    /\ \A i \in DOMAIN cache.entries :
            cache.entries[i].timestamp = lastSet[cache.entries[i].key].time
    /\ (cacheOp.op = "get" /\ cacheOp.returned # {}) =>
            Range(cache.entries) = Range(cacheOp.pre.entries)
    /\ (cacheOp.op = "get" /\ lastSet[cacheOp.key].hits > 0
            /\ now >= lastSet[cacheOp.key].time + cache.cacheTimeout) =>
            /\ cacheOp.returned = {}
            /\ ~has(cache.entries, cacheOp.key)

\* an entry that was read twice, the second time one instant before T + ttl,
\* is found by a get at T + ttl and not returned
C40_Witness ==
    /\ cacheOp.op = "get"
    /\ lastSet[cacheOp.key].hits = MaxHits
    /\ ~lastSet[cacheOp.key].dropped
    /\ has(cacheOp.pre.entries, cacheOp.key)
    /\ now = lastSet[cacheOp.key].time + cache.cacheTimeout
    /\ cacheOp.returned = {}
    /\ ~has(cache.entries, cacheOp.key)

(***************************************************************************)
(* One HttpClient and its response cache under concurrent makeRequest      *)
(* calls.  A request runs from one await to the next in one step: the      *)
(* call, the settling of axios.get, the end of the delay before a retry.   *)
(***************************************************************************)
HttpInit ==
    /\ \E maxRetryAttempts \in 0..DefaultMaxRetryAttempts :
            http = [maxRetryAttempts |-> maxRetryAttempts]
    /\ \E maxSize \in 1..MaxCacheSize :
        /\ cache = NewMemoryCache(CacheTimeout, maxSize)
        /\ cacheOp = [op |-> "new", key |-> 0, pre |-> NewMemoryCache(CacheTimeout, maxSize),
                      returned |-> {}, lru |-> {}]
    /\ req = [r \in Requests |-> NoRequest]
    /\ now = 0
    /\ lastSet = [k \in CacheKeys |-> NeverSet]
    /\ recency = <<>>
    /\ state = NewServerState
    /\ lastOp = [op |-> "new", technology |-> {}, pre |-> NewServerState]
    /\ indexes = <<>>
    /\ MutexIdle
    /\ IndexIdle
    /\ HandlersIdle
    /\ SearchIdle
    /\ FilesIdle
    /\ ClientIdle
    /\ ResolveIdle
    /\ ScoreIdle
    /\ LoaderIdle

HttpUnchanged ==
    UNCHANGED <<http, now, cacheOp, lastSet, recency, stateVars, mutexVars, indexVars,
                handlerVars, searchVars, fileVars, clientVars, resolveVars, scoreVars, loaderVars>>

\* makeRequest(path) is called
MakeRequest ==
    \E r \in Requests, url \in Urls :
        /\ req[r].pc = "idle"
        /\ LET done == makeRequest(req[r], cache, url, 1, now)
           IN  /\ req' = [req EXCEPT ![r] = done.req]
               /\ cache' = done.cache
        /\ HttpUnchanged

\* axios.get resolves with a response
NetworkResponds ==
    \E r \in Requests, data \in ValidData \cup InvalidData :
        /\ req[r].pc = "network"
        /\ LET settled == [req[r] EXCEPT !.outcomes = Append(@, [ok |-> TRUE, data |-> data,
                                                                  error |-> NoError])]
               thrown == validateResponse(data)
           IN  IF thrown = {}
               THEN /\ cache' = MemoryCache_set(cache, req[r].url, data, now)
                    /\ req' = [req EXCEPT ![r] = [settled EXCEPT !.pc = "returned",
                                                                 !.result = {data}]]
               ELSE /\ req' = [req EXCEPT ![r] =
                            catch(settled, CHOOSE e \in thrown : TRUE, http.maxRetryAttempts)]
                    /\ cache' = cacheOnRejection(cache, req[r].url, data, now)
        /\ HttpUnchanged

\* axios.get rejects
NetworkFails ==
    \E r \in Requests, error \in TransportErrors :
        /\ req[r].pc = "network"
        /\ req' = [req EXCEPT ![r] =
                catch([req[r] EXCEPT !.outcomes = Append(@, [ok |-> FALSE, data |-> NoResponseData,
                                                             error |-> error])],
                      error, http.maxRetryAttempts)]
        /\ UNCHANGED cache
        /\ HttpUnchanged

\* await this.delay(delayMs) is over: makeRequest(path, attempt + 1)
DelayEnds ==
    \E r \in Requests :
        /\ req[r].pc = "delay"
        /\ LET done == makeRequest(req[r], cache, req[r].url, req[r].attempt + 1, now)
           IN  /\ req' = [req EXCEPT ![r] = done.req]
               /\ cache' = done.cache
        /\ HttpUnchanged

\* clearCache()
ClearCache ==
    /\ cache.entries # <<>>
    /\ cache' = MemoryCache_clear(cache)
    /\ UNCHANGED req
    /\ HttpUnchanged

\* time passes
HttpTick ==
    /\ now < MaxTime
    /\ now' = now + 1
    /\ UNCHANGED <<http, req, cache, cacheOp, lastSet, recency, stateVars, mutexVars, indexVars,
                   handlerVars, searchVars, fileVars, clientVars, resolveVars, scoreVars, loaderVars>>

HttpNext ==
    \/ MakeRequest
    \/ NetworkResponds
    \/ NetworkFails
    \/ DelayEnds
    \/ ClearCache
    \/ HttpTick

SpecHttp == HttpInit /\ [][HttpNext]_vars

\* what the calls of a request settled with, by kind
FailedRetryable(outcome) ==
    /\ ~outcome.ok
    /\ outcome.error.isAxiosError
    /\ \/ outcome.error.code \in {"ECONNRESET", "ETIMEDOUT", "ECONNABORTED"}
       \/ outcome.error.status \in {429, 500, 502, 503, 504}

FailedNotRetryable(outcome) == ~outcome.ok /\ ~FailedRetryable(outcome)

Succeeded(outcome) == outcome.ok /\ outcome.data \in ValidData

Rejected(outcome) == outcome.ok /\ outcome.data \in InvalidData

\* C16: a request whose calls fail twice with a retryable condition and then
\* succeed has made 3 calls, waited baseDelay and then baseDelay * 2 between
\* them, and returns the result of the third call.
C16_RetrySequence ==
    \A r \in Requests :
        (/\ Len(req[r].outcomes) = 3
         /\ FailedRetryable(req[r].outcomes[1])
         /\ FailedRetryable(req[r].outcomes[2])
         /\ Succeeded(req[r].outcomes[3])) =>
            /\ req[r].calls = 3
            /\ req[r].delays = <<BaseRetryDelayMs, BaseRetryDelayMs * 2>>
            /\ req[r].pc = "returned"
            /\ req[r].result = {req[r].outcomes[3].data}

\* two retryable failures of different kinds, then a success
C16_Witness ==
    \E r \in Requests :
        /\ Len(req[r].outcomes) = 3
        /\ FailedRetryable(req[r].outcomes[1])
        /\ FailedRetryable(req[r].outcomes[2])
        /\ req[r].outcomes[1] # req[r].outcomes[2]
        /\ Succeeded(req[r].outcomes[3])
        /\ req[r].pc = "returned"

\* C17: a request whose network call fails with an error that is not
\* retryable makes that one call only, waits for nothing and fails.
C17_NoRetry ==
    \A r \in Requests :
        (req[r].outcomes # <<>> /\ FailedNotRetryable(req[r].outcomes[1])) =>
            /\ req[r].calls = 1
            /\ req[r].delays = <<>>
            /\ req[r].pc = "threw"
            /\ req[r].error = {FailedToFetch(req[r].outcomes[1].error)}

\* a 404 answer, with retries left
C17_Witness ==
    \E r \in Requests :
        /\ req[r].outcomes # <<>>
        /\ req[r].outcomes[1].error.status = 404
        /\ req[r].pc = "threw"
        /\ http.maxRetryAttempts > 1

\* a request all of whose calls failed with a retryable condition and that
\* may not retry any more
Exhausted(r) ==
    /\ req[r].outcomes # <<>>
    /\ \A i \in DOMAIN req[r].outcomes : FailedRetryable(req[r].outcomes[i])
    /\ Len(req[r].outcomes) >= http.maxRetryAttempts

\* C18: for every request, at most maxRetryAttempts network calls are made.
C18_AtMostMaxRetryAttempts ==
    \A r \in Requests : req[r].calls <= http.maxRetryAttempts

AttemptsAllowed == IF http.maxRetryAttempts > 1 THEN http.maxRetryAttempts ELSE 1

\* what the code keeps of C18: a request makes at most maxRetryAttempts
\* network calls, or one when maxRetryAttempts is less than one, and waits
\* fewer times than that; when every call fails with a retryable condition
\* the request fails with an error whose cause is the error of the last call.
C18_BoundedAttempts ==
    \A r \in Requests :
        /\ req[r].calls <= AttemptsAllowed
        /\ Len(req[r].delays) < AttemptsAllowed
        /\ req[r].attempt <= AttemptsAllowed
        /\ Exhausted(r) =>
                /\ req[r].pc = "threw"
                /\ req[r].error
                        = {FailedToFetch(req[r].outcomes[Len(req[r].outcomes)].error)}

\* three calls, the default, all failed
C18_Witness ==
    \E r \in Requests :
        /\ Exhausted(r)
        /\ req[r].calls = DefaultMaxRetryAttempts
        /\ req[r].pc = "threw"

\* the step in which request r has its response rejected by validateResponse
RejectStep(r) ==
    /\ req[r].pc = "network"
    /\ req'[r].pc = "threw"
    /\ Rejected(req'[r].outcomes[Len(req'[r].outcomes)])

\* C19 as stated: after a rejection the cache holds no entry for the URL.
C19_NoEntryAfterRejection ==
    [][\A r \in Requests : RejectStep(r) => ~has(cache'.entries, req[r].url)]_vars

\* C19: a response rejected by validation is not written to the cache: the
\* rejection leaves the cache as it was, no entry of the cache ever holds
\* rejected data, and a request that finds no unexpired entry for its URL
\* issues a network call.
C19_RejectedNotCached ==
    /\ [][\A r \in Requests : RejectStep(r) => cache' = cache]_vars
    /\ [](\A i \in DOMAIN cache.entries : cache.entries[i].data \notin InvalidData)
    /\ [](\A r \in Requests :
            (req[r].check.attempt > 0 /\ ~req[r].check.fresh) =>
                req[r].calls = req[r].check.calls + 1)

\* a request was rejected, and a later request for the same URL issued a call
C19_Witness ==
    \E r1, r2 \in Requests :
        /\ req[r1].pc = "threw"
        /\ req[r1].outcomes # <<>>
        /\ Rejected(req[r1].outcomes[Len(req[r1].outcomes)])
        /\ req[r2].url = req[r1].url
        /\ req[r2].pc = "network"
        /\ ~has(cache.entries, req[r1].url)

\* C20: a request that finds an unexpired entry for its URL in the cache, at
\* its call or when it comes back from the wait before a retry, returns the
\* data of the entry and issues no network call.
C20_CacheHitNoCall ==
    \A r \in Requests :
        req[r].check.fresh =>
            /\ req[r].pc = "returned"
            /\ req[r].result = req[r].check.data
            /\ req[r].calls = req[r].check.calls

\* the entry appeared while the request waited before its retry
C20_Witness ==
    \E r \in Requests :
        /\ req[r].check.fresh
        /\ req[r].check.attempt = 2
        /\ req[r].calls = 1
        /\ req[r].pc = "returned"

(***************************************************************************)
(* The specification of FileCache: saves and loads of frameworks, symbols  *)
(* and the technology list in one cache directory, which may also be       *)
(* written from outside the program.                                       *)
(***************************************************************************)
FilesInit ==
    /\ FilesIdle
    /\ state = NewServerState
    /\ lastOp = [op |-> "new", technology |-> {}, pre |-> NewServerState]
    /\ indexes = <<>>
    /\ MutexIdle
    /\ IndexIdle
    /\ HandlersIdle
    /\ SearchIdle
    /\ CacheIdle
    /\ HttpIdle
    /\ ClientIdle
    /\ ResolveIdle
    /\ ScoreIdle
    /\ LoaderIdle

FilesUnchanged ==
    UNCHANGED <<stateVars, mutexVars, indexVars, handlerVars, searchVars, cacheVars, httpVars,
                clientVars, resolveVars, scoreVars, loaderVars>>

\* a save whose writeFile resolves: the file is written and the save recorded
Saved(saver, data, done) ==
    /\ docsDir' = done.fs
    /\ fileOp' = NoFileOp
    /\ savedUnder' = [savedUnder EXCEPT ![saver] = {data}]
    /\ lastSaver' = [lastSaver EXCEPT ![FileOf(saver)] = {saver}]
    /\ FilesUnchanged

SaveFramework ==
    \E name \in FrameworkNames, data \in ValidFrameworkData :
        Saved(Saver("framework", name), data, saveFramework(docsDir, name, data, ""))

SaveSymbol ==
    \E path \in SymbolPaths, data \in ValidSymbolData :
        Saved(Saver("symbol", path), data, saveSymbol(docsDir, path, data, ""))

SaveTechnologies ==
    \E data \in TechnologyRecords :
        Saved(Saver("technologies", <<>>), data, saveTechnologies(docsDir, data, ""))

\* a cache file is written from outside the program
WriteFile ==
    \E file \in FileNames : \E text \in CorruptTexts(file) :
        /\ docsDir' = [docsDir EXCEPT ![file] = {text}]
        /\ lastSaver' = [lastSaver EXCEPT ![file] = {}]
        /\ fileOp' = NoFileOp
        /\ UNCHANGED savedUnder
        /\ FilesUnchanged

\* a load: nothing is written
Loaded(op, saver, result) ==
    /\ fileOp' = [op |-> op, saver |-> saver, result |-> result]
    /\ UNCHANGED <<docsDir, savedUnder, lastSaver>>
    /\ FilesUnchanged

LoadFramework ==
    \E name \in FrameworkNames :
        Loaded("loadFramework", Saver("framework", name), loadFramework(docsDir, name, ""))

LoadSymbol ==
    \E path \in SymbolPaths :
        Loaded("loadSymbol", Saver("symbol", path), loadSymbol(docsDir, path, ""))

LoadTechnologies ==
    Loaded("loadTechnologies", Saver("technologies", <<>>), loadTechnologies(docsDir, ""))

FilesNext ==
    \/ SaveFramework
    \/ SaveSymbol
    \/ SaveTechnologies
    \/ WriteFile
    \/ LoadFramework
    \/ LoadSymbol
    \/ LoadTechnologies

SpecFiles == FilesInit /\ [][FilesNext]_vars

\* the last operation was a load of a framework or a symbol that read its file
LoadedDocument ==
    /\ fileOp.op \in {"loadFramework", "loadSymbol"}
    /\ ~fileOp.result.threw

\* the file of the last operation
FileLoaded == FileOf(fileOp.saver)

\* the schema of the last load
PassesSchema(value) ==
    IF fileOp.op = "loadFramework" THEN FrameworkDataSchema(value)
    ELSE SymbolDataSchema(value)

\* C21 as stated: a load returns a value equal to the one most recently saved
\* under the same name or path.
C21_RoundTripPerName ==
    (/\ LoadedDocument
     /\ savedUnder[fileOp.saver] # {}
     /\ lastSaver[FileLoaded] # {})
        => \E saved \in savedUnder[fileOp.saver], loaded \in fileOp.result.value :
                deepEqual(loaded, saved)

\* C21: a load returns a value equal to the one most recently saved into the
\* cache file of the name or path, if it passes the schema, and absent if it
\* does not.  The file of a symbol path is saved into under that path alone;
\* the file of a framework name is also saved into under every framework name
\* with the same sanitized form, and under the technology list when the
\* sanitized form is technologies.
C21_RoundTripPerFile ==
    (LoadedDocument /\ lastSaver[FileLoaded] # {}) =>
        \A by \in lastSaver[FileLoaded] : \A saved \in savedUnder[by] :
            /\ IF PassesSchema(JSON_stringify(saved))
               THEN \E loaded \in fileOp.result.value : deepEqual(loaded, saved)
               ELSE fileOp.result.value = {}
            /\ fileOp.op = "loadSymbol" => by = fileOp.saver
            /\ fileOp.op = "loadFramework" =>
                    \/ /\ by.kind = "framework"
                       /\ sanitizeFrameworkName(by.name)
                            = sanitizeFrameworkName(fileOp.saver.name)
                    \/ /\ by.kind = "technologies"
                       /\ sanitizeFrameworkName(fileOp.saver.name) = technologies

\* a framework is loaded with the data, unknown and undefined properties
\* included, that was saved under another name after the save under its own
C21_Witness ==
    /\ fileOp.op = "loadFramework"
    /\ savedUnder[fileOp.saver] # {}
    /\ \E by \in lastSaver[FileLoaded] :
        /\ by # fileOp.saver
        /\ \E saved \in savedUnder[by] :
            /\ in("schemaVersion", saved)
            /\ saved \notin savedUnder[fileOp.saver]
            /\ \E loaded \in fileOp.result.value : deepEqual(loaded, saved)

\* the file of the last load exists and holds text that is not JSON or JSON
\* that does not match the schema of the load
HoldsCorruption ==
    /\ fileOp.op \in {"loadFramework", "loadSymbol"}
    /\ \E text \in docsDir[FileLoaded] :
        \/ text.syntax # "json"
        \/ ~PassesSchema(text.value)

C23_TechnologiesCorruptionTolerance ==
    (/\ fileOp.op = "loadTechnologies"
     /\ docsDir[technologiesCachePath] \subseteq CorruptTexts(technologiesCachePath)
     /\ docsDir[technologiesCachePath] # {})
        => (~fileOp.result.threw /\ fileOp.result.value = {})

\* loadTechnologies throws the SyntaxError of JSON.parse
C23_Witness ==
    /\ fileOp.op = "loadTechnologies"
    /\ docsDir[technologiesCachePath] = {Malformed}
    /\ fileOp.result.threw
    /\ fileOp.result.error = "SyntaxError"

(***************************************************************************)
(* The specification of AppleDevDocsClient: calls of getFramework,         *)
(* refreshFramework, getSymbol and refreshTechnologies, each stepping from *)
(* await to await over one cache directory and one HttpClient.  Call c     *)
(* makes request c of the HttpClient.  The API answers with a valid        *)
(* document or with 404.                                                   *)
(***************************************************************************)
ClientInit ==
    /\ ClientIdle
    /\ ResolveIdle
    /\ ScoreIdle
    /\ LoaderIdle
    /\ FilesIdle
    /\ state = NewServerState
    /\ lastOp = [op |-> "new", technology |-> {}, pre |-> NewServerState]
    /\ indexes = <<>>
    /\ MutexIdle
    /\ IndexIdle
    /\ HandlersIdle
    /\ SearchIdle
    /\ CacheIdle
    /\ HttpIdle

ClientUnchanged ==
    UNCHANGED <<http, now, cacheOp, lastSet, recency, fileOp, savedUnder, lastSaver,
                stateVars, mutexVars, indexVars, handlerVars, searchVars, resolveVars, scoreVars, loaderVars>>

\* this.httpClient.getDocumentation(path), up to the await of axios.get
Fetch(c, started) ==
    LET done == makeRequest(req[c], cache, urlOf(started.document), 1, now)
    IN  /\ req' = [req EXCEPT ![c] = done.req]
        /\ cache' = done.cache
        /\ clientCall' = [clientCall EXCEPT ![c] =
                IF done.req.pc = "returned"
                THEN [started EXCEPT !.pc = "save", !.data = done.req.result]
                ELSE [started EXCEPT !.pc = "fetch"]]

\* a method of the client is called: getFramework and getSymbol await the
\* load, the refresh methods go to the HttpClient at once
ClientCall ==
    \E c \in Calls, op \in DOMAIN ClientOps :
        /\ clientCall[c].pc = "idle"
        /\ LET started == [NoCall EXCEPT !.op = op, !.document = ClientOps[op]]
           IN  IF op \in {"getFramework", "getSymbol"}
               THEN /\ clientCall' = [clientCall EXCEPT ![c] = [started EXCEPT !.pc = "load"]]
                    /\ UNCHANGED <<req, cache>>
               ELSE Fetch(c, started)
        /\ UNCHANGED docsDir
        /\ ClientUnchanged

\* the load resolves: a hit is returned, a miss goes to the HttpClient
ClientLoaded ==
    \E c \in Calls :
        /\ clientCall[c].pc = "load"
        /\ LET loaded == clientLoad(docsDir, clientCall[c].document)
           IN  IF loaded.value # {}
               THEN /\ clientCall' = [clientCall EXCEPT ![c].pc = "returned",
                                                        ![c].result = loaded.value]
                    /\ UNCHANGED <<req, cache>>
               ELSE Fetch(c, clientCall[c])
        /\ UNCHANGED docsDir
        /\ ClientUnchanged

\* axios.get resolves with a document, which passes validateResponse and is
\* put into the response cache
ClientNetworkResponds ==
    \E c \in Calls :
        /\ clientCall[c].pc = "fetch"
        /\ \E data \in ResponsesFor(clientCall[c].document) :
            /\ validateResponse(Response(data)) = {}
            /\ cache' = MemoryCache_set(cache, req[c].url, data, now)
            /\ req' = [req EXCEPT ![c].pc = "returned", ![c].result = {data},
                                  ![c].outcomes = Append(@, [ok |-> TRUE,
                                                             data |-> Response(data),
                                                             error |-> NoError])]
            /\ clientCall' = [clientCall EXCEPT ![c].pc = "save", ![c].data = {data}]
        /\ UNCHANGED docsDir
        /\ ClientUnchanged

\* axios.get rejects with 404: makeRequest throws, and so does the method
ClientNetworkFails ==
    \E c \in Calls :
        /\ clientCall[c].pc = "fetch"
        /\ LET error == [NoError EXCEPT !.isAxiosError = TRUE, !.status = 404]
               failed == catch([req[c] EXCEPT !.outcomes =
                                    Append(@, [ok |-> FALSE, data |-> NoResponseData,
                                               error |-> error])],
                               error, http.maxRetryAttempts)
           IN  /\ req' = [req EXCEPT ![c] = failed]
               /\ clientCall' = [clientCall EXCEPT ![c].pc = "threw",
                                                   ![c].error = "Failed to fetch documentation"]
        /\ UNCHANGED <<cache, docsDir>>
        /\ ClientUnchanged

\* the error fs.writeFile may reject with
WriteFailures == {"", "ENOSPC"}

\* the save resolves or rejects, and the method returns or throws
ClientSaved ==
    \E c \in Calls, failure \in WriteFailures :
        /\ clientCall[c].pc = "save"
        /\ \E data \in clientCall[c].data :
            LET done == clientSave(docsDir, clientCall[c].document, data, failure)
            IN  /\ docsDir' = done.fs
                /\ clientCall' = [clientCall EXCEPT ![c] =
                        IF done.threw
                        THEN [@ EXCEPT !.pc = "threw", !.error = done.error,
                                       !.saveFailed = TRUE]
                        ELSE [@ EXCEPT !.pc = "returned",
                                       !.result = {clientResult(clientCall[c].document, data)}]]
        /\ UNCHANGED <<req, cache>>
        /\ ClientUnchanged

ClientNext ==
    \/ ClientCall
    \/ ClientLoaded
    \/ ClientNetworkResponds
    \/ ClientNetworkFails
    \/ ClientSaved

SpecClient == ClientInit /\ [][ClientNext]_vars

\* C24: when the store misses and the fetch succeeds, a failure of the write
\* to the store does not fail getFramework or getSymbol: the fetched data is returned.
C24_WriteFailureTolerated ==
    \A c \in Calls :
        (/\ clientCall[c].op \in {"getFramework", "getSymbol"}
         /\ clientCall[c].saveFailed)
            => /\ clientCall[c].pc = "returned"
               /\ clientCall[c].result = clientCall[c].data

\* getSymbol fetched the document with one network call and threw the error
\* of writeFile
C24_Witness ==
    \E c \in Calls :
        /\ clientCall[c].op = "getSymbol"
        /\ req[c].calls = 1
        /\ clientCall[c].data # {}
        /\ clientCall[c].saveFailed
        /\ clientCall[c].pc = "threw"
        /\ clientCall[c].error = "ENOSPC"

\* C25: every call of refreshFramework and refreshTechnologies that gets its
\* document has made a network call for it.
C25_RefreshFetches ==
    \A c \in Calls :
        (/\ clientCall[c].op \in {"refreshFramework", "refreshTechnologies"}
         /\ clientCall[c].data # {})
            => req[c].calls >= 1

\* refreshFramework returned the entry of the response cache with no network call
C25_Witness ==
    \E c \in Calls :
        /\ clientCall[c].op = "refreshFramework"
        /\ clientCall[c].pc = "returned"
        /\ req[c].calls = 0
        /\ req[c].check.fresh

(***************************************************************************)
(* SpecResolve: one resolveSymbol call.  The client is outside: each       *)
(* getSymbol either returns the symbol data or throws.                     *)
(***************************************************************************)

ResolveInit ==
    /\ state = NewServerState
    /\ lastOp = [op |-> "new", technology |-> {}, pre |-> NewServerState]
    /\ indexes = <<>>
    /\ MutexIdle
    /\ IndexIdle
    /\ HandlersIdle
    /\ SearchIdle
    /\ CacheIdle
    /\ HttpIdle
    /\ FilesIdle
    /\ ClientIdle
    /\ ResolveIdle
    /\ ScoreIdle
    /\ LoaderIdle

ResolveUnchanged ==
    UNCHANGED <<stateVars, mutexVars, indexVars, handlerVars, searchVars, cacheVars, httpVars,
                fileVars, clientVars, scoreVars, loaderVars>>

\* resolveSymbol(client, path, frameworkName, options) is called
ResolveCall(path, frameworkName, options) ==
    /\ resolving.pc = "idle"
    /\ resolving' = [resolving EXCEPT
            !.pc = IF startsWith(path, <<"documentation/">>) THEN "getSymbol" ELSE "direct",
            !.path = path, !.frameworkName = frameworkName, !.options = options]
    /\ ResolveUnchanged

\* return client.getSymbol(path): the path has the documentation/ prefix
ResolveFullPath(ok) ==
    /\ resolving.pc = "getSymbol"
    /\ resolving' = [resolving EXCEPT
            !.pc = IF ok THEN "returned" ELSE "threw",
            !.calls = @ \cup {[path |-> resolving.path, found |-> ok]},
            !.result = IF ok THEN {SymbolAt(resolving.path)} ELSE {},
            !.error = IF ok THEN {} ELSE {[code |-> "getSymbol", message |-> <<>>]}]
    /\ ResolveUnchanged

\* directResult = await tryGetSymbol(client, path); on undefined the candidates are queued
ResolveDirect(ok) ==
    /\ resolving.pc = "direct"
    /\ LET frameworkList ==
               frameworksToTry(resolving.path, resolving.frameworkName, resolving.options)
       IN  resolving' = [resolving EXCEPT
               !.pc = IF ok THEN "returned" ELSE "fanout",
               !.calls = @ \cup {[path |-> resolving.path, found |-> ok]},
               !.result = IF ok THEN {SymbolAt(resolving.path)} ELSE {},
               !.frameworkList = IF ok THEN <<>> ELSE frameworkList,
               !.tasks = IF ok THEN <<>> ELSE [i \in DOMAIN frameworkList |-> "queued"],
               !.results = IF ok THEN <<>> ELSE [i \in DOMAIN frameworkList |-> {}]]
    /\ ResolveUnchanged

\* limit(...): the first queued task starts when fewer than maxConcurrent are running
ResolveStart(i) ==
    /\ resolving.pc = "fanout"
    /\ i \in DOMAIN resolving.tasks
    /\ resolving.tasks[i] = "queued"
    /\ \A j \in 1..(i - 1) : resolving.tasks[j] # "queued"
    /\ Cardinality({j \in DOMAIN resolving.tasks : resolving.tasks[j] = "running"}) < MaxConcurrent
    /\ resolving' = [resolving EXCEPT !.tasks[i] = "running"]
    /\ ResolveUnchanged

\* tryGetSymbol(client, `documentation/${fw}/${path}`) settles
ResolveTried(i, ok) ==
    /\ resolving.pc = "fanout"
    /\ i \in DOMAIN resolving.tasks
    /\ resolving.tasks[i] = "running"
    /\ LET path == candidatePath(resolving.frameworkList[i], resolving.path)
       IN  resolving' = [resolving EXCEPT
               !.tasks[i] = "fulfilled",
               !.results[i] = IF ok THEN {SymbolAt(path)} ELSE {},
               !.calls = @ \cup {[path |-> path, found |-> ok]}]
    /\ ResolveUnchanged

\* Promise.allSettled resolves: the first defined result is returned, or the McpError thrown
ResolveSettled ==
    /\ resolving.pc = "fanout"
    /\ \A i \in DOMAIN resolving.tasks : resolving.tasks[i] = "fulfilled"
    /\ LET first == foundResult(resolving.results)
       IN  resolving' = [resolving EXCEPT
               !.pc = IF first # {} THEN "returned" ELSE "threw",
               !.result = first,
               !.error = IF first # {} THEN {}
                         ELSE {notFoundError(resolving.path, resolving.frameworkList)}]
    /\ ResolveUnchanged

ResolveNext ==
    \/ \E path \in ResolvePaths, frameworkName \in ResolveFrameworkNames, options \in ResolveOptions :
           ResolveCall(path, frameworkName, options)
    \/ \E ok \in BOOLEAN : ResolveFullPath(ok)
    \/ \E ok \in BOOLEAN : ResolveDirect(ok)
    \/ \E i \in 1..Len(resolving.tasks) : ResolveStart(i)
    \/ \E i \in 1..Len(resolving.tasks), ok \in BOOLEAN : ResolveTried(i, ok)
    \/ ResolveSettled

SpecResolve == ResolveInit /\ [][ResolveNext]_vars

\* the candidate frameworks of the call: prefix-mapped, active, additional
Candidates ==
    Range(getFrameworkPrefixesForSymbol(resolving.path))
        \cup {resolving.frameworkName}
        \cup UNION {Range(list) : list \in resolving.options.additionalFrameworks}

\* the call threw the not-found McpError
ThrewNotFound ==
    /\ resolving.pc = "threw"
    /\ \E error \in resolving.error : error.code = "InvalidRequest"

\* C26: resolveSymbol for a path without the documentation/ prefix throws its
\* not-found error only after the direct path and every candidate framework
\* (prefix-mapped, active, additional) were tried and failed, the message
\* lists every candidate, and when any attempt succeeded the call returns data.
C26_NotFoundAfterAllCandidates ==
    /\ ThrewNotFound =>
           /\ [path |-> resolving.path, found |-> FALSE] \in resolving.calls
           /\ \A fw \in Candidates :
                  /\ [path |-> candidatePath(fw, resolving.path), found |-> FALSE] \in resolving.calls
                  /\ \A error \in resolving.error : includes(error.message, <<fw>>)
    /\ (/\ resolving.pc \in {"returned", "threw"}
        /\ \E call \in resolving.calls : call.found)
           => /\ resolving.pc = "returned"
              /\ resolving.result # {}

C26_Witness ==
    /\ ThrewNotFound
    /\ Cardinality(Candidates) = 4
    /\ ~startsWith(resolving.path, <<"documentation/">>)

(***************************************************************************)
(* SpecScore: collectMatches on the framework indexes, queries, limits and *)
(* filters of the bounds.                                                  *)
(***************************************************************************)

ScoreInit ==
    /\ \E entries \in EntryLists, query \in RankQueries,
          maxResults \in RankMaxResults, filters \in RankFilters :
            ranking = [NoRanking EXCEPT !.entries = entries, !.query = query,
                                        !.maxResults = maxResults, !.filters = filters]
    /\ state = NewServerState
    /\ lastOp = [op |-> "new", technology |-> {}, pre |-> NewServerState]
    /\ indexes = <<>>
    /\ MutexIdle
    /\ IndexIdle
    /\ HandlersIdle
    /\ SearchIdle
    /\ CacheIdle
    /\ HttpIdle
    /\ FilesIdle
    /\ ClientIdle
    /\ ResolveIdle
    /\ LoaderIdle

\* collectMatches(entries, query, maxResults, filters) is called and returns
CollectMatches ==
    /\ ranking.pc = "idle"
    /\ ranking' = [ranking EXCEPT
            !.pc = "returned",
            !.ranked = collectMatches(ranking.entries, ranking.query,
                                      ranking.maxResults, ranking.filters)]
    /\ UNCHANGED <<stateVars, mutexVars, indexVars, handlerVars, searchVars, cacheVars, httpVars,
                   fileVars, clientVars, resolveVars, loaderVars>>

ScoreNext == CollectMatches

SpecScore == ScoreInit /\ [][ScoreNext]_vars

\* the entry of the index that a ranked reference was made of
RankedEntry(r) ==
    CHOOSE entry \in Range(ranking.entries) : entry.id = r.id

\* the entry matches every term of the query
MatchesEvery(entry, terms) ==
    \A i \in DOMAIN terms : termScore(entry, terms[i]) > 0

\* the entry matches a term of the query
MatchesSome(entry, terms) ==
    \E i \in DOMAIN terms : termScore(entry, terms[i]) > 0

\* C30: in the ranked result of collectMatches for a query of several terms,
\* an entry that matches every term is above every entry that matches only
\* some of the terms.
C30_AllTermsAboveSomeTerms ==
    (ranking.pc = "returned" /\ Len(termsOf(ranking.query)) >= 2) =>
        \A i, j \in DOMAIN ranking.ranked :
            LET terms == termsOf(ranking.query)
                every == RankedEntry(ranking.ranked[i])
                some == RankedEntry(ranking.ranked[j])
            IN  (/\ MatchesEvery(every, terms)
                 /\ MatchesSome(some, terms)
                 /\ ~MatchesEvery(some, terms)) => i < j

\* the result of a query of two terms holds an entry that matches both and
\* an entry that matches one
C30_Witness ==
    /\ ranking.pc = "returned"
    /\ Len(termsOf(ranking.query)) = 2
    /\ \E i, j \in DOMAIN ranking.ranked :
           /\ MatchesEvery(RankedEntry(ranking.ranked[i]), termsOf(ranking.query))
           /\ ~MatchesEvery(RankedEntry(ranking.ranked[j]), termsOf(ranking.query))

\* the tiers of a term against the tokens of an entry, highest first
Tiers(entry, term) ==
    LET Tokens == Range(entry.tokens)
        Fraction(token) ==
            Cardinality({i \in DOMAIN term : \E k \in DOMAIN token :
                            lowerCase(token)[k] = lowerCase(term)[i]})
    IN  << \E token \in Tokens : token = term,
           \E token \in Tokens : lowerCase(token) = lowerCase(term),
           \E token \in Tokens : includes(lowerCase(token), lowerCase(term)),
           \E token \in Tokens : /\ Len(token) > 2 /\ Len(term) > 2
                                  /\ 10 * Fraction(token) > 7 * Len(term) >>

\* the value of the first tier that holds, 0 when none does
TierValue(entry, term) ==
    LET tiers == Tiers(entry, term)
    IN  IF tiers[1] THEN 5 ELSE IF tiers[2] THEN 4 ELSE IF tiers[3] THEN 2
        ELSE IF tiers[4] THEN 1 ELSE 0

RECURSIVE SumTierValues(_, _)
SumTierValues(entry, terms) ==
    IF terms = <<>> THEN 0
    ELSE TierValue(entry, Head(terms)) + SumTierValues(entry, Tail(terms))

\* C31: scoreEntry returns the sum over the terms of one tier value per term:
\* 5 for a token equal to the term, else 4 for a token equal to it letter
\* case aside, else 2 for a token containing it, else 1 for a token longer
\* than 2 holding more than 70% of the characters of a term longer than 2,
\* else 0; never more than one tier or one token per term.
C31_OneTierPerTerm ==
    ranking.pc = "returned" =>
        \A i \in DOMAIN ranking.ranked :
            ranking.ranked[i].score
                = SumTierValues(RankedEntry(ranking.ranked[i]), termsOf(ranking.query))

\* the result holds an entry scored by an exact match and an entry, two of
\* whose tokens qualify as fuzzy matches of one term, scored 1
C31_Witness ==
    /\ ranking.pc = "returned"
    /\ \E i \in DOMAIN ranking.ranked :
           ranking.ranked[i].id = "2" /\ ranking.ranked[i].score = 5
    /\ \E i \in DOMAIN ranking.ranked :
           ranking.ranked[i].id = "5" /\ ranking.ranked[i].score = 1

(***************************************************************************)
(* SpecLoader: loadActiveFrameworkData and expandSymbolReferences calls    *)
(* interleaved with the selection step of choose_technology, on one        *)
(* session state.  A call runs from one await to the next in one step.     *)
(***************************************************************************)

LoaderInit ==
    /\ state = NewServerState
    /\ lastOp = [op |-> "new", technology |-> {}, pre |-> NewServerState]
    /\ indexes = <<>>
    /\ MutexIdle
    /\ IndexIdle
    /\ HandlersIdle
    /\ SearchIdle
    /\ CacheIdle
    /\ HttpIdle
    /\ FilesIdle
    /\ ClientIdle
    /\ ResolveIdle
    /\ ScoreIdle
    /\ LoaderIdle

LoaderUnchanged ==
    UNCHANGED <<indexes, mutexVars, indexVars, handlerVars, searchVars, cacheVars, httpVars,
                fileVars, clientVars, resolveVars, scoreVars>>

\* choose_technology resolved to a framework: ensureFramework, setActiveTechnology,
\* clearActiveFrameworkData
ChooseSelects ==
    \E technology \in {SwiftUI, UIKit} :
        /\ state' = selectChosen(state, {technology}).state
        /\ lastOp' = Op("choose_technology", {technology})
        /\ UNCHANGED loader
        /\ LoaderUnchanged

\* loadActiveFrameworkData up to its first await, for the call `call`
loadStart(call, s) ==
    IF s.activeTechnology = {} THEN [call EXCEPT !.pc = "threw"]
    ELSE IF s.activeFrameworkData # {}
    THEN [call EXCEPT !.pc = "loaded", !.technology = s.activeTechnology,
                      !.framework = s.activeFrameworkData]
    ELSE [call EXCEPT !.pc = "awaitFramework", !.technology = s.activeTechnology,
                      !.frameworkName = frameworkNameOf(CHOOSE t \in s.activeTechnology : TRUE)]

\* loadActiveFrameworkData(context) is called
LoadCall ==
    \E h \in Loaders :
        /\ loader[h].pc = "idle"
        /\ loader' = [loader EXCEPT ![h] = loadStart([@ EXCEPT !.op = "load"], state)]
        /\ UNCHANGED <<state, lastOp>>
        /\ LoaderUnchanged

\* expandSymbolReferences(context, identifiers) is called: on to ensureFrameworkIndex
\* and loadActiveFrameworkData
ExpandCall ==
    \E h \in Loaders, identifiers \in IdentifierLists :
        /\ loader[h].pc = "idle"
        /\ loader' = [loader EXCEPT ![h] =
                loadStart([@ EXCEPT !.op = "expand", !.identifiers = identifiers,
                                    !.before = state.expandedIdentifiers], state)]
        /\ UNCHANGED <<state, lastOp>>
        /\ LoaderUnchanged

\* await client.getFramework(frameworkName) is over
LoadFetched ==
    \E h \in Loaders, ok \in BOOLEAN :
        /\ loader[h].pc = "awaitFramework"
        /\ IF ok
           THEN LET data == FrameworkOf(loader[h].frameworkName)
                IN  /\ state' = loadAfterFetch(state, data)
                    /\ lastOp' = Op("loadActiveFrameworkData", {})
                    /\ loader' = [loader EXCEPT ![h].pc = "loaded", ![h].framework = {data}]
           ELSE /\ loader' = [loader EXCEPT ![h].pc = "threw"]
                /\ UNCHANGED <<state, lastOp>>
        /\ LoaderUnchanged

\* await loadActiveFrameworkData(context) is over: the call returns, or
\* ensureFrameworkIndex goes on to its return
LoadReturns ==
    \E h \in Loaders :
        /\ loader[h].pc = "loaded"
        /\ IF loader[h].op = "load"
           THEN /\ loader' = [loader EXCEPT ![h].pc = "returned"]
                /\ UNCHANGED <<state, lastOp>>
           ELSE LET ensured == ensureFrameworkIndex(state, CHOOSE f \in loader[h].framework : TRUE)
                IN  /\ state' = ensured.state
                    /\ lastOp' = Op("ensureFrameworkIndex", {})
                    /\ loader' = [loader EXCEPT ![h].pc = "indexed", ![h].index = ensured.index]
        /\ LoaderUnchanged

\* await ensureFrameworkIndex(context) is over: the identifiers to process are
\* queued on the limiter
ExpandQueues ==
    \E h \in Loaders :
        /\ loader[h].pc = "indexed"
        /\ LET toProcess == identifiersToProcess(state, loader[h].identifiers)
           IN  loader' = [loader EXCEPT ![h].pc = "fanout",
                                        ![h].toProcess = toProcess,
                                        ![h].tasks = [i \in DOMAIN toProcess |-> "queued"],
                                        ![h].results = [i \in DOMAIN toProcess |-> {}],
                                        ![h].outcomes = [i \in DOMAIN toProcess |-> "none"]]
        /\ UNCHANGED <<state, lastOp>>
        /\ LoaderUnchanged

\* limit(...): the first queued fetch starts when fewer than maxConcurrent are running
ExpandStarts ==
    \E h \in Loaders :
        \E i \in DOMAIN loader[h].tasks :
            /\ loader[h].pc = "fanout"
            /\ loader[h].tasks[i] = "queued"
            /\ \A j \in 1..(i - 1) : loader[h].tasks[j] # "queued"
            /\ Cardinality({j \in DOMAIN loader[h].tasks : loader[h].tasks[j] = "running"})
                   < MaxConcurrent
            /\ loader' = [loader EXCEPT ![h].tasks[i] = "running"]
            /\ UNCHANGED <<state, lastOp>>
            /\ LoaderUnchanged

\* one client.getSymbol(symbolPath) settles: {data, identifier}, or undefined from the catch
ExpandFetched ==
    \E h \in Loaders, outcome \in FetchOutcomes :
        \E i \in DOMAIN loader[h].tasks :
            /\ loader[h].pc = "fanout"
            /\ loader[h].tasks[i] = "running"
            /\ LET identifier == loader[h].toProcess[i]
               IN  loader' = [loader EXCEPT
                       ![h].tasks[i] = "fulfilled",
                       ![h].outcomes[i] = outcome,
                       ![h].results[i] =
                           IF outcome = "rejected" THEN {}
                           ELSE {[identifier |-> identifier,
                                  references |-> SymbolReferences(identifier, outcome)]}]
            /\ UNCHANGED <<state, lastOp>>
            /\ LoaderUnchanged

\* Promise.allSettled resolves: the loop over the results, then the return
ExpandSettled ==
    \E h \in Loaders :
        /\ loader[h].pc = "fanout"
        /\ \A i \in DOMAIN loader[h].tasks : loader[h].tasks[i] = "fulfilled"
        /\ LET done == processResults(state, loader[h].index, loader[h].results, 1)
           IN  /\ state' = done.state
               /\ lastOp' = Op("expandSymbolReferences", {})
               /\ loader' = [loader EXCEPT ![h].pc = IF done.threw THEN "threw" ELSE "returned",
                                            ![h].index = done.index,
                                            ![h].after = done.state.expandedIdentifiers]
        /\ LoaderUnchanged

LoaderNext ==
    \/ ChooseSelects
    \/ LoadCall
    \/ ExpandCall
    \/ LoadFetched
    \/ LoadReturns
    \/ ExpandQueues
    \/ ExpandStarts
    \/ ExpandFetched
    \/ ExpandSettled

SpecLoader == LoaderInit /\ [][LoaderNext]_vars

\* the last step on the session state was the selection of choose_technology,
\* for the identifier that was active
Reselected ==
    /\ lastOp.op = "choose_technology"
    /\ Identifier(lastOp.technology) = Identifier(lastOp.pre.activeTechnology)

\* C32: choose_technology for the technology that is already active is an
\* idempotent re-selection: right after the selection step the active
\* framework data, the framework index, the expanded identifiers and the
\* local symbol index are what they were before the call.
C32_ReselectionKeepsDependentState ==
    Reselected => Dependent(state) = Dependent(lastOp.pre)

\* the active technology was selected again while its framework data, its
\* framework index and expanded identifiers were held
C32_Witness ==
    /\ Reselected
    /\ lastOp.pre.activeFrameworkData # {}
    /\ lastOp.pre.frameworkIndex # {}
    /\ lastOp.pre.expandedIdentifiers # {}

\* C33: under any interleaving of loadActiveFrameworkData with a technology
\* change, the active framework data held in session state, when defined, is
\* the framework data of the active technology.
C33_FrameworkDataOfActiveTechnology ==
    \A data \in state.activeFrameworkData :
        /\ state.activeTechnology # {}
        /\ \A technology \in state.activeTechnology :
               data = FrameworkOf(frameworkNameOf(technology))

\* a fetch started under one technology has ended after another was selected
C33_Witness ==
    \E h \in Loaders :
        /\ loader[h].pc \in {"loaded", "returned"}
        /\ loader[h].frameworkName # ""
        /\ loader[h].technology # {}
        /\ Identifier(loader[h].technology) # Identifier(state.activeTechnology)

\* an expandSymbolReferences call that got its framework index has ended
Expanded(h) ==
    /\ loader[h].op = "expand"
    /\ loader[h].pc \in {"returned", "threw"}
    /\ loader[h].framework # {}

\* the fetch the call made for the identifier resolved with symbol data
FetchSucceeded(h, identifier) ==
    \E i \in DOMAIN loader[h].toProcess :
        /\ loader[h].toProcess[i] = identifier
        /\ loader[h].outcomes[i] \in {"noReferences", "references"}

\* C39: expandSymbolReferences isolates the failures of single identifiers: a
\* failed fetch does not reject the call, and after the call an identifier of
\* the request is marked expanded exactly when it was marked before or its
\* own fetch succeeded.
C39_FailuresIsolated ==
    \A h \in Loaders :
        Expanded(h) =>
            /\ (\A i \in DOMAIN loader[h].outcomes : loader[h].outcomes[i] # "noReferences")
                   => loader[h].pc = "returned"
            /\ \A identifier \in Range(loader[h].identifiers) :
                   identifier \in loader[h].after
                       <=> (identifier \in loader[h].before \/ FetchSucceeded(h, identifier))

\* a call for two identifiers has ended, one fetch rejected, the other resolved
C39_Witness ==
    \E h \in Loaders :
        /\ Expanded(h)
        /\ Len(loader[h].toProcess) = 2
        /\ \E i, j \in DOMAIN loader[h].outcomes :
               loader[h].outcomes[i] = "rejected" /\ loader[h].outcomes[j] = "references"

====
